---- MODULE Spec2Model ----
\* EvoWrite / SAGE: the intent classifier (user_agent.py), the response
\* validator (checker_agent.py), the decaying memory store (user_agent.py,
\* sage_agents.py), the chat and feedback handlers (sage_api.py) and the
\* Llama demo server (app.py, llama_integration.py) as state machines.
\*
\* Texts are sequences of atoms.  An atom is a maximal run of word characters
\* (a word), one punctuation character, or one whitespace character; the text
\* is the concatenation of its atoms.  Rational numbers are pairs <<n, d>>
\* with d > 0, compared by cross-multiplication.
EXTENDS Integers, Sequences, FiniteSets, TLC

VARIABLES
    user_input,      \* classifier: the raw text handed to classify_intent
    classification,  \* classifier: what classify_intent returned (NoResult before the call)
    response,        \* validator: assistant_response['content']
    history,         \* validator: assistant_response column of the learner's interactions, newest first
    learner_known,   \* validator: processed_input['learner_profile'] carries an id
    validation,      \* validator: what validate_response returned (NoResult before the call)
    overall,         \* validator: what _calculate_overall_score returned, with its arguments
    memories,        \* memory store: the agent_memory table, in insertion order
    now,             \* memory store: datetime.utcnow(), in whole days
    last,            \* memory store: the last operation, its arguments and what it returned
    ops,             \* number of store, feedback and profile operations performed so far
    profiles,        \* pipeline: the learner_profiles table, by id
    interactions,    \* pipeline: the interactions table, in insertion order (id = position)
    requests,        \* pipeline: the chat and process_user_input calls, each with its position in the code
    reply,           \* pipeline: what the last submit_feedback request was answered
    generated,       \* demo server: what the last LlamaIntegration.generate_response call returned
    demo             \* demo server: app.py's interactions dictionary and the reply to the last chat request

vars == <<user_input, classification, response, history, learner_known,
          validation, overall, memories, now, last, ops,
          profiles, interactions, requests, reply, generated, demo>>

classifierVars == <<user_input, classification>>
validatorVars == <<response, history, learner_known, validation, overall>>
storeVars == <<memories, now, last, ops>>
pipelineVars == <<profiles, interactions, requests, reply>>
demoVars == <<generated, demo>>

NoResult == [status |-> "none"]

\* ---------------------------------------------------------------- bounds

\* Longest enumerated classifier input, in atoms.
MaxInputLen == 4

\* Longest enumerated ending of a response, in phrases.
MaxTailLen == 2

\* Most memory-store operations and clock ticks in one run.
MaxOps == 5

\* -------------------------------------------------------------- rationals

\* A number as <<numerator, denominator>>.
Fraction == Int \X Int

Gcd[a \in Nat, b \in Nat] == IF b = 0 THEN a ELSE Gcd[b, a % b]

\* n/d in lowest terms; <<n, 0>> (a failed division) is left as it is.
Rat[n \in Int, d \in Int] ==
    IF d = 0 THEN <<n, d>>
    ELSE LET g == Gcd[IF n < 0 THEN -n ELSE n, d]
         IN  <<n \div g, d \div g>>

RLe[a \in Fraction, b \in Fraction] == a[1] * b[2] <= b[1] * a[2]

RLt[a \in Fraction, b \in Fraction] == a[1] * b[2] < b[1] * a[2]

REq[a \in Fraction, b \in Fraction] == a[1] * b[2] = b[1] * a[2]

RAdd[a \in Fraction, b \in Fraction] == Rat[a[1] * b[2] + b[1] * a[2], a[2] * b[2]]

RSub[a \in Fraction, b \in Fraction] == Rat[a[1] * b[2] - b[1] * a[2], a[2] * b[2]]

RMul[a \in Fraction, b \in Fraction] == Rat[a[1] * b[1], a[2] * b[2]]

\* sum(...) over a sequence of rationals
RSum[s \in Seq(Fraction)] == IF s = <<>> THEN Rat[0, 1] ELSE RAdd[Head(s), RSum[Tail(s)]]

RMin[a \in Fraction, b \in Fraction] == IF RLe[a, b] THEN a ELSE b

RMax[a \in Fraction, b \in Fraction] == IF RLe[a, b] THEN b ELSE a

\* -------------------------------------------------------------- text atoms

Whitespace == {" ", "\n"}

Punctuation == {"?", ",", ".", "-", "!", "'", ":", "*"}

IsWord(a) == a \notin Whitespace \cup Punctuation

\* str.lower() on one atom: only the capitalised atoms of the inputs change.
LowerAtom(a) ==
    CASE a = "How" -> "how"
      [] a = "I" -> "i"
      [] a = "Fix" -> "fix"
      [] a = "EFL" -> "efl"
      [] a = "He" -> "he"
      [] a = "Well" -> "well"
      [] a = "Great" -> "great"
      [] a = "Your" -> "your"
      [] a = "What" -> "what"
      [] a = "Let" -> "let"
      [] a = "Remember" -> "remember"
      [] a = "Learning" -> "learning"
      [] a = "Strategy" -> "strategy"
      [] a = "Tip" -> "tip"
      [] a = "Note" -> "note"
      [] a = "For" -> "for"
      [] a = "Consider" -> "consider"
      [] a = "Grammar" -> "grammar"
      [] a = "Suggestions" -> "suggestions"
      [] a = "Vocabulary" -> "vocabulary"
      [] a = "Enhancements" -> "enhancements"
      [] a = "Try" -> "try"
      [] OTHER -> a

\* str.lower() on a text.
Lower(t) == [k \in DOMAIN t |-> LowerAtom(t[k])]

\* len(text.split()): the number of maximal runs of non-whitespace atoms.
WordCount(t) ==
    Cardinality({k \in DOMAIN t :
        /\ t[k] \notin Whitespace
        /\ (k = 1 \/ t[k - 1] \in Whitespace)})

\* ------------------------------------------------------- regular expressions

\* A pattern r'\b(a|b c|...)\b' is [bounded |-> TRUE, alts |-> <<a, <<b, c>>, ...>>]:
\* each alternative is its words, which the pattern separates by one space.
\* r'\?' is [bounded |-> FALSE, alts |-> << <<"?">> >>].
Pat(alts) == [bounded |-> TRUE, alts |-> alts]

Lit(alts) == [bounded |-> FALSE, alts |-> alts]

\* The number of atoms alternative p spans.
Span(p) == 2 * Len(p) - 1

\* Alternative p matches the atoms of t that start at i.
PhraseAt(p, t, i) ==
    /\ i + Span(p) - 1 <= Len(t)
    /\ \A k \in 1..Len(p) : t[i + 2 * (k - 1)] = p[k]
    /\ \A k \in 1..(Len(p) - 1) : t[i + 2 * k - 1] = " "

\* \b on both sides of a match of Span n at i: a word character inside, none outside.
Bounded(t, i, n) ==
    /\ (i = 1 \/ ~IsWord(t[i - 1]))
    /\ (i + n - 1 = Len(t) \/ ~IsWord(t[i + n]))

\* The atoms the pattern consumes at i: those of its first alternative that
\* matches there (with its word boundaries), 0 when none does.
MatchLen(pat, t, i) ==
    LET hits == {a \in DOMAIN pat.alts :
                    /\ PhraseAt(pat.alts[a], t, i)
                    /\ (pat.bounded => Bounded(t, i, Span(pat.alts[a])))}
    IN  IF hits = {} THEN 0
        ELSE Span(pat.alts[CHOOSE a \in hits : \A b \in hits : a <= b])

RECURSIVE FindallFrom(_, _, _)
\* len(re.findall(pattern, text)) from atom i on: leftmost, non-overlapping matches.
FindallFrom(pat, t, i) ==
    IF i > Len(t) THEN 0
    ELSE LET m == MatchLen(pat, t, i)
         IN  IF m > 0 THEN 1 + FindallFrom(pat, t, i + m)
             ELSE FindallFrom(pat, t, i + 1)

FindallCount(pat, t) == FindallFrom(pat, t, 1)

RECURSIVE SumSeq(_)
SumSeq(s) == IF s = <<>> THEN 0 ELSE Head(s) + SumSeq(Tail(s))

\* ------------------------------------------------------- intent classifier

\* UserAgent.intent_patterns, in declaration order (user_agent.py:27-82).
IntentPatterns == <<
    [intent |-> "Answer", patterns |-> <<
        Pat(<< <<"what">>, <<"how">>, <<"why">>, <<"when">>, <<"where">>, <<"which">>, <<"who">> >>),
        Pat(<< <<"question">>, <<"ask">>, <<"tell", "me">>, <<"explain">> >>),
        Lit(<< <<"?">> >>),
        Pat(<< <<"help", "me", "understand">>, <<"clarify">>, <<"define">> >>) >>],
    [intent |-> "ACK", patterns |-> <<
        Pat(<< <<"yes">>, <<"ok">>, <<"okay">>, <<"right">>, <<"correct">>, <<"thanks">>, <<"thank", "you">> >>),
        Pat(<< <<"i", "see">>, <<"i", "understand">>, <<"got", "it">>, <<"makes", "sense">> >>),
        Pat(<< <<"good">>, <<"great">>, <<"perfect">>, <<"excellent">> >>) >>],
    [intent |-> "R Language Use", patterns |-> <<
        Pat(<< <<"grammar">>, <<"syntax">>, <<"word", "choice">>, <<"vocabulary">> >>),
        Pat(<< <<"correct">>, <<"fix">>, <<"improve">>, <<"better", "way">> >>),
        Pat(<< <<"comma">>, <<"period">>, <<"punctuation">>, <<"spelling">> >>),
        Pat(<< <<"tense">>, <<"verb">>, <<"noun">>, <<"adjective">>, <<"adverb">> >>) >>],
    [intent |-> "R Information", patterns |-> <<
        Pat(<< <<"information">>, <<"details">>, <<"facts">>, <<"data">> >>),
        Pat(<< <<"research">>, <<"source">>, <<"reference">>, <<"citation">> >>),
        Pat(<< <<"background">>, <<"context">>, <<"history">> >>) >>],
    [intent |-> "R Revision", patterns |-> <<
        Pat(<< <<"revise">>, <<"edit">>, <<"rewrite">>, <<"improve">>, <<"modify">> >>),
        Pat(<< <<"draft">>, <<"version">>, <<"change">>, <<"update">> >>),
        Pat(<< <<"better">>, <<"enhance">>, <<"polish">>, <<"refine">> >>) >>],
    [intent |-> "R Evaluation", patterns |-> <<
        Pat(<< <<"evaluate">>, <<"assess">>, <<"judge">>, <<"rate">>, <<"score">> >>),
        Pat(<< <<"feedback">>, <<"opinion">>, <<"thoughts">>, <<"review">> >>),
        Pat(<< <<"good">>, <<"bad">>, <<"quality">>, <<"strength">>, <<"weakness">> >>) >>],
    [intent |-> "R Generation", patterns |-> <<
        Pat(<< <<"generate">>, <<"create">>, <<"write">>, <<"produce">>, <<"make">> >>),
        Pat(<< <<"example">>, <<"sample">>, <<"template">>, <<"outline">> >>),
        Pat(<< <<"idea">>, <<"suggestion">>, <<"topic">>, <<"theme">> >>) >>],
    [intent |-> "Negotiation", patterns |-> <<
        Pat(<< <<"but">>, <<"however">>, <<"although">>, <<"disagree">>, <<"different">> >>),
        Pat(<< <<"alternative">>, <<"another", "way">>, <<"instead">> >>),
        Pat(<< <<"negotiate">>, <<"discuss">>, <<"debate">> >>) >>],
    [intent |-> "R Confirmation", patterns |-> <<
        Pat(<< <<"confirm">>, <<"verify">>, <<"check">>, <<"sure">>, <<"certain">> >>),
        Pat(<< <<"is", "this", "right">>, <<"am", "i", "correct">>, <<"does", "this", "work">> >>) >>],
    [intent |-> "Conversation", patterns |-> <<
        Pat(<< <<"hello">>, <<"hi">>, <<"hey">>, <<"good", "morning">>, <<"good", "afternoon">> >>),
        Pat(<< <<"how", "are", "you">>, <<"nice", "to", "meet">>, <<"chat">>, <<"talk">> >>) >>],
    [intent |-> "R Translation", patterns |-> <<
        Pat(<< <<"translate">>, <<"translation">>, <<"chinese">>, <<"korean">> >>),
        Pat(<< <<"mean", "in">>, <<"say", "in">>, <<"express", "in">> >>) >>] >>

\* What the / operator gives; the pair <<0, 0>> stands for the
\* ZeroDivisionError a zero divisor raises.
ZeroDivisionError == <<0, 0>>

Div(a, b) == IF b = 0 THEN ZeroDivisionError ELSE Rat[a, b]

\* score of category k: the matches of all its patterns in the lowered text.
PatternScore(k, lowered) ==
    SumSeq([j \in DOMAIN IntentPatterns[k].patterns |->
               FindallCount(IntentPatterns[k].patterns[j], lowered)])

\* intent_scores without the 'if score > 0' guard: every category is normalised, matched or not.
IntentScores_NoGuard(text) ==
    LET lowered == Lower(text)
    IN  [k \in DOMAIN IntentPatterns |->
            Div(PatternScore(k, lowered), WordCount(text))]

\* The intent_scores dictionary after the loop: the categories with
\* score > 0, in table order, each with score / len(user_input.split()).
IntentScores(text) ==
    LET lowered == Lower(text)
        score == [k \in DOMAIN IntentPatterns |-> PatternScore(k, lowered)]
        scored == {k \in DOMAIN IntentPatterns : score[k] > 0}
    IN  [k \in scored |-> Div(score[k], WordCount(text))]

\* max() that keeps the last of the keys with the highest value.
BestIntent_LastMax(scores) ==
    CHOOSE k \in DOMAIN scores :
        /\ \A j \in DOMAIN scores : RLe[scores[j], scores[k]]
        /\ \A j \in DOMAIN scores : j > k => RLt[scores[j], scores[k]]

\* max(intent_scores, key=intent_scores.get): the first key, in insertion
\* order, whose value no other key's value exceeds.
BestIntent(scores) ==
    CHOOSE k \in DOMAIN scores :
        /\ \A j \in DOMAIN scores : RLe[scores[j], scores[k]]
        /\ \A j \in DOMAIN scores : j < k => RLt[scores[j], scores[k]]

\* The confidence without its cap at 1.0.
Confidence_NoCap(score) == RMul[score, Rat[2, 1]]

\* min(intent_scores[best_intent] * 2, 1.0)
Confidence(score) == RMin[RMul[score, Rat[2, 1]], Rat[1, 1]]

\* classify_intent with a fallback confidence of 0.0.
ClassifyIntent_FallbackZero(text) ==
    LET scores == IntentScores(text)
    IN  IF \E k \in DOMAIN scores : scores[k] = ZeroDivisionError
            THEN [status |-> "raised", error |-> ZeroDivisionError]
        ELSE IF DOMAIN scores = {}
            THEN [status |-> "returned", intent |-> "Other", confidence |-> Rat[0, 1]]
        ELSE LET best == BestIntent(scores)
             IN  [status |-> "returned",
                  intent |-> IntentPatterns[best].intent,
                  confidence |-> Confidence(scores[best])]

\* UserAgent.classify_intent
ClassifyIntent(text) ==
    LET scores == IntentScores(text)
    IN  IF \E k \in DOMAIN scores : scores[k] = ZeroDivisionError
            THEN [status |-> "raised", error |-> ZeroDivisionError]
        ELSE IF DOMAIN scores = {}
            THEN [status |-> "returned", intent |-> "Other", confidence |-> Rat[1, 2]]
        ELSE LET best == BestIntent(scores)
             IN  [status |-> "returned",
                  intent |-> IntentPatterns[best].intent,
                  confidence |-> Confidence(scores[best])]

\* The atoms the enumerated inputs are built from.
InputAlphabet == {" ", "?", "how", "correct", "fix", "usage"}

\* "How do I fix comma usage in this sentence?"
CommaQuestion ==
    <<"How", " ", "do", " ", "I", " ", "fix", " ", "comma", " ", "usage", " ",
      "in", " ", "this", " ", "sentence", "?">>

\* Inputs with capitals, with a two-word alternative and with a three-way tie.
ScenarioInputs ==
    {CommaQuestion,
     <<"good", " ", "morning">>,
     <<"How", " ", "are", " ", "you", "?">>,
     <<"Fix", " ", "the", " ", "word", " ", "choice", ".">>,
     <<"usage", " ", "fix", " ", "usage">>,
     <<"I", " ", "see", ",", " ", "thank", " ", "you">>}

\* Every text of at most MaxInputLen atoms, and the scenario inputs.
Inputs ==
    UNION {[1..n -> InputAlphabet] : n \in 0..MaxInputLen} \cup ScenarioInputs

\* A text to classify; the validator and the store are idle.
InitClassifier ==
    /\ user_input \in Inputs
    /\ classification = NoResult
    /\ response = <<>>
    /\ history = <<>>
    /\ learner_known = FALSE
    /\ validation = NoResult
    /\ overall = NoResult
    /\ memories = <<>>
    /\ now = 0
    /\ last = NoResult
    /\ ops = 0
    /\ profiles = <<>>
    /\ interactions = <<>>
    /\ requests = <<>>
    /\ reply = NoResult
    /\ generated = NoResult
    /\ demo = [interactions |-> <<>>, reply |-> NoResult]

\* One call classify_intent(user_input).
Classify ==
    /\ classification = NoResult
    /\ classification' = ClassifyIntent(user_input)
    /\ UNCHANGED <<user_input, validatorVars, storeVars, pipelineVars, demoVars>>

\* ------------------------------------------------ classifier: the claims

\* The matches of the category named c in the current input.
MatchesOf(c) ==
    PatternScore(CHOOSE k \in DOMAIN IntentPatterns : IntentPatterns[k].intent = c,
                 Lower(user_input))

\* No category has a match in the current input.
NoMatch == \A k \in DOMAIN IntentPatterns : PatternScore(k, Lower(user_input)) = 0

Returned == classification.status = "returned"

\* C4: the confidence classify_intent returns lies in [0, 1]; for a winning
\* category it is min(2 * (its matches / word count), 1.0), and the fallback
\* confidence is 0.5.
C4_ConfidenceInUnitInterval ==
    Returned =>
        LET c == classification.confidence
            wc == WordCount(user_input)
        IN  /\ c[2] > 0 /\ 0 <= c[1] /\ c[1] <= c[2]
            /\ classification.intent = "Other" => REq[c, Rat[1, 2]]
            /\ classification.intent # "Other" =>
                   LET total == MatchesOf(classification.intent)
                   IN  /\ wc > 0
                       /\ 2 * total >= wc => REq[c, Rat[1, 1]]
                       /\ 2 * total < wc => REq[c, Rat[2 * total, wc]]

\* C4 witness: a winning category whose doubled score exceeds 1 was capped.
C4_Witness ==
    /\ Returned
    /\ classification.intent # "Other"
    /\ 2 * MatchesOf(classification.intent) > WordCount(user_input)
    /\ REq[classification.confidence, Rat[1, 1]]

\* C5: an input without any pattern match yields Other at confidence exactly
\* 0.5, and Other is never returned with another confidence.
C5_NoMatchGivesOtherHalf ==
    classification.status # "none" =>
        /\ NoMatch => (Returned /\ classification.intent = "Other")
        /\ (Returned /\ classification.intent = "Other") =>
               (NoMatch /\ classification.confidence = Rat[1, 2])

\* C5 witness: a non-empty input of words none of which matches.
C5_Witness ==
    /\ Returned
    /\ classification.intent = "Other"
    /\ WordCount(user_input) > 0

\* C6: classify_intent never raises; an input of word count 0 yields
\* Other/0.5 without dividing, and whenever a pattern matched (so that the
\* division is reached) the word count is at least 1.
C6_NeverDividesByZero ==
    /\ classification.status # "raised"
    /\ (Returned /\ WordCount(user_input) = 0) =>
           (classification.intent = "Other" /\ classification.confidence = Rat[1, 2])
    /\ ~NoMatch => WordCount(user_input) >= 1

\* C6 witness: a whitespace-only input has been classified.
C6_Witness ==
    /\ Returned
    /\ Len(user_input) > 0
    /\ WordCount(user_input) = 0

\* The order of the categories the claim gives.
ClaimedOrder ==
    <<"Answer", "ACK", "R Language Use", "R Information", "R Revision",
      "R Evaluation", "R Generation", "Negotiation", "R Confirmation",
      "Conversation", "R Translation">>

\* C7: the returned category has the highest normalised score, and among the
\* categories that tie for it the one first in the declared order.
C7_HighestScoreFirstDeclaredWins ==
    (Returned /\ ~NoMatch) =>
        \E w \in DOMAIN ClaimedOrder :
            /\ ClaimedOrder[w] = classification.intent
            /\ \A j \in DOMAIN ClaimedOrder :
                   /\ MatchesOf(ClaimedOrder[j]) <= MatchesOf(ClaimedOrder[w])
                   /\ j < w => MatchesOf(ClaimedOrder[j]) < MatchesOf(ClaimedOrder[w])

\* C7 witness: the winner ties with a category declared after it.
C7_Witness ==
    /\ Returned
    /\ \E w, j \in DOMAIN ClaimedOrder :
           /\ ClaimedOrder[w] = classification.intent
           /\ j > w
           /\ MatchesOf(ClaimedOrder[j]) = MatchesOf(ClaimedOrder[w])

\* C8 as stated: for "How do I fix comma usage in this sentence?" the
\* classifier selects R Language Use, whose match count exceeds that of
\* Answer, with a confidence in (0, 1].
C8_CommaQuestionIsLanguageUse ==
    (Returned /\ user_input = CommaQuestion) =>
        /\ classification.intent = "R Language Use"
        /\ MatchesOf("R Language Use") > MatchesOf("Answer")
        /\ RLt[Rat[0, 1], classification.confidence]
        /\ RLe[classification.confidence, Rat[1, 1]]

\* C8 amended: for that input R Language Use and Answer both have 2 matches
\* over 9 words, the tie goes to Answer, declared first, and the confidence
\* is 4/9, which is in (0, 1].
C8_CommaQuestionIsAnswer ==
    (Returned /\ user_input = CommaQuestion) =>
        /\ classification.intent = "Answer"
        /\ MatchesOf("R Language Use") = 2
        /\ MatchesOf("Answer") = 2
        /\ WordCount(user_input) = 9
        /\ REq[classification.confidence, Rat[4, 9]]

\* C8 witness: the sentence has been classified.
C8_Witness == Returned /\ user_input = CommaQuestion

SpecClassify == InitClassifier /\ [][Classify]_vars

\* --------------------------------------------------------- response texts

RECURSIVE Spaced(_)
\* The atoms of the words joined by single spaces.
Spaced(words) ==
    IF Len(words) <= 1 THEN words
    ELSE <<Head(words), " ">> \o Spaced(Tail(words))

\* len() of one atom, in characters.
AtomLen(a) == IF a \in Whitespace \cup Punctuation THEN 1 ELSE Len(a)

\* len(content)
TextLen(t) == SumSeq([k \in DOMAIN t |-> AtomLen(t[k])])

\* The words of the response lexicon that hold another word inside them:
\* <<word, part, where the part sits>>.
AtomParts ==
    {<<"unclear", "clear", "suffix">>,
     <<"inappropriate", "appropriate", "suffix">>,
     <<"irrelevant", "relevant", "suffix">>,
     <<"goals", "goal", "prefix">>,
     <<"explanation", "plan", "infix">>}

\* Word w occurs in atom a: anywhere ("infix"), at its start or at its end.
AtomHas(a, w, where) ==
    \/ a = w
    \/ \E p \in AtomParts :
           /\ p[1] = a
           /\ p[2] = w
           /\ (where = "infix" \/ where = p[3])

\* The characters of key are those of t from atom i on: the first atom of
\* key may end atom i and its last atom may start the last atom it covers.
KeyAt(key, t, i) ==
    LET n == Len(key)
    IN  /\ n >= 1
        /\ i + n - 1 <= Len(t)
        /\ IF n = 1 THEN AtomHas(t[i], key[1], "infix")
           ELSE /\ AtomHas(t[i], key[1], "suffix")
                /\ AtomHas(t[i + n - 1], key[n], "prefix")
                /\ \A k \in 2..(n - 1) : t[i + k - 1] = key[k]

\* key in text (Python's substring test)
InText(key, t) == \E i \in DOMAIN t : KeyAt(key, t, i)

\* any(word in text for word in words)
AnyInText(keys, t) == \E k \in DOMAIN keys : InText(keys[k], t)

\* ------------------------------------------------------------ bias patterns

\* r'\b(a|b)\b.*\b(c|d)\b': two word groups on one line, anything between.
Gap(first, second) == [glue |-> "gap", groups |-> <<first, second>>]

\* r'\b(a|b)\s+(c|d)\b': word groups separated by whitespace.
Adj(groups) == [glue |-> "space", groups |-> groups]

\* CheckerAgent.bias_patterns (checker_agent.py:83-101).
BiasPatterns == <<
    [bias |-> "gender_bias", patterns |-> <<
        Gap(<< <<"he">>, <<"his">>, <<"him">> >>,
            << <<"strong">>, <<"leader">>, <<"assertive">> >>),
        Gap(<< <<"she">>, <<"her">> >>,
            << <<"emotional">>, <<"sensitive">>, <<"nurturing">> >>) >>],
    [bias |-> "cultural_bias", patterns |-> <<
        Adj(<< << <<"western">>, <<"eastern">> >>,
               << <<"way">>, <<"approach">>, <<"method">> >> >>),
        Adj(<< << <<"american">>, <<"chinese">>, <<"korean">> >>,
               << <<"students">>, <<"learners">> >>,
               << <<"are">>, <<"tend", "to">> >> >>) >>],
    [bias |-> "linguistic_bias", patterns |-> <<
        Adj(<< << <<"native">> >>, << <<"speaker">> >> >>),
        Adj(<< << <<"perfect">> >>, << <<"english">> >> >>),
        Adj(<< << <<"broken">> >>, << <<"english">> >> >>) >>],
    [bias |-> "ability_bias", patterns |-> <<
        Adj(<< << <<"smart">>, <<"intelligent">> >>,
               << <<"students">>, <<"learners">> >> >>),
        Adj(<< << <<"slow">>, <<"weak">> >>,
               << <<"learners">>, <<"students">> >> >>) >>] >>

\* The atoms the first alternative of the group that matches at i spans, 0 if none.
GroupAt(group, t, i) ==
    LET hits == {a \in DOMAIN group : PhraseAt(group[a], t, i)}
    IN  IF hits = {} THEN 0
        ELSE Span(group[CHOOSE a \in hits : \A b \in hits : a <= b])

\* \b before atom i, which starts with a word character.
BoundaryBefore(t, i) == i = 1 \/ ~IsWord(t[i - 1])

\* \b after atom i, which ends with a word character.
BoundaryAfter(t, i) == i = Len(t) \/ ~IsWord(t[i + 1])

\* The first atom from i on that is not whitespace (Len(t) + 1 if none).
SkipSpace(t, i) ==
    LET rest == {j \in i..Len(t) : t[j] \notin Whitespace}
    IN  IF rest = {} THEN Len(t) + 1 ELSE CHOOSE j \in rest : \A k \in rest : j <= k

RECURSIVE AdjEnd(_, _, _, _)
\* Groups g.. of a \s+ pattern match from atom i: the last atom matched, 0 if none.
AdjEnd(groups, g, t, i) ==
    LET s == IF i > Len(t) THEN 0 ELSE GroupAt(groups[g], t, i)
    IN  IF s = 0 THEN 0
        ELSE IF g = Len(groups)
            THEN IF BoundaryAfter(t, i + s - 1) THEN i + s - 1 ELSE 0
        ELSE LET j == SkipSpace(t, i + s)
             IN  IF j = i + s THEN 0 ELSE AdjEnd(groups, g + 1, t, j)

\* A .* pattern matches from atom i: the last atom matched (greedy: the
\* last second-group word of the line), 0 if none.
GapEnd(groups, t, i) ==
    LET s == GroupAt(groups[1], t, i)
        starts == {j \in (i + s)..Len(t) :
                      /\ GroupAt(groups[2], t, j) > 0
                      /\ BoundaryBefore(t, j)
                      /\ BoundaryAfter(t, j + GroupAt(groups[2], t, j) - 1)
                      /\ \A k \in (i + s)..(j - 1) : t[k] # "\n"}
        ends == {j + GroupAt(groups[2], t, j) - 1 : j \in starts}
    IN  IF s = 0 \/ ~BoundaryAfter(t, i + s - 1) \/ ends = {} THEN 0
        ELSE CHOOSE e \in ends : \A f \in ends : f <= e

\* The last atom of the match of pat that starts at atom i, 0 if none.
BiasMatchEnd(pat, t, i) ==
    IF ~IsWord(t[i]) \/ ~BoundaryBefore(t, i) THEN 0
    ELSE IF pat.glue = "gap" THEN GapEnd(pat.groups, t, i)
    ELSE AdjEnd(pat.groups, 1, t, i)

\* len(re.findall(pattern, content, re.IGNORECASE)) on the lowered content:
\* the scan restarts after each match.
BiasFindall(pat, t) ==
    LET from[i \in Nat] ==
            IF i > Len(t) THEN 0
            ELSE LET e == BiasMatchEnd(pat, t, i)
                 IN  IF e > 0 THEN 1 + from[e + 1] ELSE from[i + 1]
    IN  from[1]

\* len(matches) for bias type b: the matches of all its patterns.
BiasMatches(b, content) ==
    SumSeq([j \in DOMAIN BiasPatterns[b].patterns |->
               BiasFindall(BiasPatterns[b].patterns[j], Lower(content))])

\* CheckerAgent._assess_bias_severity
AssessBiasSeverity(matches) ==
    IF matches >= 3 THEN "high"
    ELSE IF matches >= 2 THEN "medium"
    ELSE "low"

\* CheckerAgent._detect_bias
DetectBias(content) ==
    LET count == [b \in DOMAIN BiasPatterns |-> BiasMatches(b, content)]
        detected == {b \in DOMAIN BiasPatterns : count[b] > 0}
    IN  [detected_biases |-> {BiasPatterns[b].bias : b \in detected},
         severity |-> {<<BiasPatterns[b].bias, AssessBiasSeverity(count[b])>> : b \in detected},
         bias_free |-> detected = {}]

\* ------------------------------------------------------- response validator

\* CheckerAgent.quality_criteria (checker_agent.py:30-51).
QualityCriteria == <<
    [criterion |-> "clarity", min_score |-> Rat[7, 10],
     indicators |-> << Spaced(<<"clear", "explanation">>),
                       <<"step", "-", "by", "-", "step">>,
                       Spaced(<<"examples", "provided">>) >>,
     negative_indicators |-> << <<"vague">>, <<"confusing">>, <<"unclear">> >>],
    [criterion |-> "accuracy", min_score |-> Rat[8, 10],
     indicators |-> << Spaced(<<"factually", "correct">>),
                       Spaced(<<"proper", "grammar">>),
                       Spaced(<<"appropriate", "terminology">>) >>,
     negative_indicators |-> << Spaced(<<"incorrect", "information">>),
                                Spaced(<<"grammar", "errors">>),
                                <<"misleading">> >>],
    [criterion |-> "helpfulness", min_score |-> Rat[7, 10],
     indicators |-> << Spaced(<<"actionable", "advice">>),
                       Spaced(<<"specific", "suggestions">>),
                       Spaced(<<"relevant", "examples">>) >>,
     negative_indicators |-> << Spaced(<<"generic", "response">>),
                                <<"unhelpful">>, <<"irrelevant">> >>],
    [criterion |-> "engagement", min_score |-> Rat[6, 10],
     indicators |-> << Spaced(<<"encouraging", "tone">>),
                       Spaced(<<"interactive", "elements">>),
                       <<"motivational">> >>,
     negative_indicators |-> << <<"dry">>, <<"boring">>, <<"discouraging">> >>] >>

\* CheckerAgent.educational_standards (checker_agent.py:55-79).
EducationalStandards == <<
    [standard |-> "age_appropriate", requirements |-> <<
        Spaced(<<"suitable", "language", "level">>),
        Spaced(<<"appropriate", "content", "complexity">>),
        Spaced(<<"no", "inappropriate", "references">>) >>],
    [standard |-> "pedagogically_sound", requirements |-> <<
        Spaced(<<"builds", "on", "prior", "knowledge">>),
        Spaced(<<"scaffolded", "learning">>),
        Spaced(<<"clear", "learning", "objectives">>),
        <<"promotes", " ", "self", "-", "regulation">> >>],
    [standard |-> "culturally_sensitive", requirements |-> <<
        Spaced(<<"respects", "cultural", "differences">>),
        Spaced(<<"inclusive", "language">>),
        Spaced(<<"avoids", "stereotypes">>),
        Spaced(<<"considers", "EFL", "context">>) >>],
    [standard |-> "academically_rigorous", requirements |-> <<
        Spaced(<<"accurate", "information">>),
        Spaced(<<"proper", "citations", "when", "needed">>),
        <<"evidence", "-", "based", " ", "suggestions">>,
        Spaced(<<"promotes", "critical", "thinking">>) >>] >>

\* CheckerAgent.consistency_checks (checker_agent.py:105-111), the aspects in order.
ConsistencyChecks ==
    <<"terminology", "tone", "difficulty_level", "learning_objectives", "feedback_style">>

\* Number of matching entries of a list of keys.
CountIn(keys, t) == Cardinality({k \in DOMAIN keys : InText(keys[k], t)})

\* A variant of _calculate_criterion_score that does not clamp its result.
CalculateCriterionScore_Unclamped(content, cfg) ==
    LET content_lower == Lower(content)
        positive_count == CountIn(cfg.indicators, content_lower)
        negative_count == CountIn(cfg.negative_indicators, content_lower)
        total_indicators == Len(cfg.indicators)
    IN  IF total_indicators = 0 THEN Rat[1, 2]
        ELSE RSub[Rat[positive_count, total_indicators],
                  RMul[Rat[negative_count, 1], Rat[2, 10]]]

\* CheckerAgent._calculate_criterion_score
CalculateCriterionScore(content, cfg) ==
    LET content_lower == Lower(content)
        positive_count == CountIn(cfg.indicators, content_lower)
        negative_count == CountIn(cfg.negative_indicators, content_lower)
        total_indicators == Len(cfg.indicators)
    IN  IF total_indicators = 0 THEN Rat[1, 2]
        ELSE LET positive_ratio == Rat[positive_count, total_indicators]
                 negative_penalty == RMul[Rat[negative_count, 1], Rat[2, 10]]
             IN  RMax[Rat[0, 1], RMin[Rat[1, 1], RSub[positive_ratio, negative_penalty]]]

\* CheckerAgent._assess_quality: per criterion, its score and meets_threshold.
AssessQuality(content) ==
    [c \in DOMAIN QualityCriteria |->
        LET score == CalculateCriterionScore(content, QualityCriteria[c])
        IN  [score |-> score,
             meets_threshold |-> RLe[QualityCriteria[c].min_score, score]]]

\* CheckerAgent._check_requirement, on the lowered content.
CheckRequirement(content, requirement) ==
    LET requirement_lower == Lower(requirement)
    IN  IF InText(<<"appropriate">>, requirement_lower)
            THEN TextLen(content) > 50
        ELSE IF InText(<<"scaffolded">>, requirement_lower)
            THEN AnyInText(<< <<"step">>, <<"first">>, <<"next">> >>, content)
        ELSE IF InText(<<"self", "-", "regulation">>, requirement_lower)
            THEN AnyInText(<< <<"goal">>, <<"plan">>, <<"monitor">>,
                              <<"reflect">>, <<"strategy">> >>, content)
        ELSE IF InText(<<"cultural">>, requirement_lower)
            THEN ~InText(<<"culture">>, content) \/ InText(<<"inclusive">>, content)
        ELSE IF InText(<<"evidence">>, requirement_lower)
            THEN AnyInText(<< <<"research">>, <<"study">>, <<"evidence">> >>, content)
        ELSE TRUE

\* CheckerAgent._assess_educational_compliance
AssessEducationalCompliance(content, requirements) ==
    LET content_lower == Lower(content)
        met_requirements ==
            Cardinality({r \in DOMAIN requirements :
                            CheckRequirement(content_lower, requirements[r])})
    IN  IF requirements = <<>> THEN Rat[0, 1]
        ELSE Rat[met_requirements, Len(requirements)]

\* The loop of _check_educational_standards up to the score and the
\* compliant flag of each standard (checker_agent.py:241-247).
StandardCompliance(content) ==
    [s \in DOMAIN EducationalStandards |->
        LET score == AssessEducationalCompliance(content, EducationalStandards[s].requirements)
        IN  [score |-> score, compliant |-> RLe[Rat[7, 10], score]]]

\* What a call of a method the class does not define raises.
AttributeError == [status |-> "raised", error |-> "AttributeError"]

\* self._check_requirements_met(content, requirements): CheckerAgent has no
\* method of that name, so looking it up raises.
CheckRequirementsMet(content, requirements) == AttributeError

\* CheckerAgent._check_educational_standards: each standard's entry needs
\* requirements_met, so the first standard already raises.
CheckEducationalStandards(content) ==
    IF \E s \in DOMAIN EducationalStandards :
           CheckRequirementsMet(content, EducationalStandards[s].requirements) = AttributeError
        THEN AttributeError
    ELSE [status |-> "returned", value |-> StandardCompliance(content)]

\* The encouraging words of the tone check (checker_agent.py:363).
EncouragingWords ==
    << <<"great">>, <<"excellent">>, <<"good">>,
       Spaced(<<"well", "done">>), Spaced(<<"keep", "up">>) >>

\* The number of prior responses _get_recent_interactions fetches (limit=5).
RecentLimit == 5

\* CheckerAgent._get_recent_interactions: the newest RecentLimit responses
\* of the learner that are not NULL.
GetRecentInteractions(hist) == SubSeq(hist, 1, IF Len(hist) < RecentLimit THEN Len(hist) ELSE RecentLimit)

\* A variant of _assess_consistency_aspect without the early return for an
\* empty list of recent interactions: only the tone check notices it.
AssessConsistencyAspect_NoEarlyReturn(content, recent, aspect) ==
    IF aspect = "tone" THEN
        LET current_encouraging == AnyInText(EncouragingWords, Lower(content))
            past_encouraging_count ==
                Cardinality({k \in DOMAIN recent :
                                /\ recent[k] # <<>>
                                /\ AnyInText(EncouragingWords, Lower(recent[k]))})
        IN  IF Len(recent) = 0 THEN Rat[1, 1]
            ELSE IF RLt[Rat[1, 2], Rat[past_encouraging_count, Len(recent)]]
                        /\ current_encouraging
                THEN Rat[1, 1]
            ELSE IF RLe[Rat[past_encouraging_count, Len(recent)], Rat[1, 2]]
                        /\ ~current_encouraging
                THEN Rat[1, 1]
            ELSE Rat[1, 2]
    ELSE Rat[8, 10]

\* A variant of _assess_consistency_aspect whose default for the aspects
\* other than tone is 0.6.
AssessConsistencyAspect_LowDefault(content, recent, aspect) ==
    IF recent = <<>> THEN Rat[1, 1]
    ELSE IF aspect = "tone" THEN
        LET current_encouraging == AnyInText(EncouragingWords, Lower(content))
            past_encouraging_count ==
                Cardinality({k \in DOMAIN recent :
                                /\ recent[k] # <<>>
                                /\ AnyInText(EncouragingWords, Lower(recent[k]))})
            past_encouraging_ratio == Rat[past_encouraging_count, Len(recent)]
        IN  IF RLt[Rat[1, 2], past_encouraging_ratio] /\ current_encouraging
                THEN Rat[1, 1]
            ELSE IF RLe[past_encouraging_ratio, Rat[1, 2]] /\ ~current_encouraging
                THEN Rat[1, 1]
            ELSE Rat[1, 2]
    ELSE Rat[6, 10]

\* CheckerAgent._assess_consistency_aspect
AssessConsistencyAspect(content, recent, aspect) ==
    IF recent = <<>> THEN Rat[1, 1]
    ELSE IF aspect = "tone" THEN
        LET current_encouraging == AnyInText(EncouragingWords, Lower(content))
            past_encouraging_count ==
                Cardinality({k \in DOMAIN recent :
                                /\ recent[k] # <<>>
                                /\ AnyInText(EncouragingWords, Lower(recent[k]))})
            past_encouraging_ratio == Rat[past_encouraging_count, Len(recent)]
        IN  IF RLt[Rat[1, 2], past_encouraging_ratio] /\ current_encouraging
                THEN Rat[1, 1]
            ELSE IF RLe[past_encouraging_ratio, Rat[1, 2]] /\ ~current_encouraging
                THEN Rat[1, 1]
            ELSE Rat[1, 2]
    ELSE Rat[8, 10]

\* CheckerAgent._check_consistency.  Without a learner id the result has no
\* overall_consistency and no aspect results.
CheckConsistency(content, hist, known) ==
    IF ~known THEN [has_overall |-> FALSE, consistent |-> TRUE]
    ELSE LET recent == GetRecentInteractions(hist)
             score == [a \in DOMAIN ConsistencyChecks |->
                          AssessConsistencyAspect(content, recent, ConsistencyChecks[a])]
             overall_consistency == RMul[RSum[score], Rat[1, Len(ConsistencyChecks)]]
         IN  [has_overall |-> TRUE,
              overall_consistency |-> overall_consistency,
              aspect_results |-> [a \in DOMAIN ConsistencyChecks |->
                                     [aspect |-> ConsistencyChecks[a],
                                      score |-> score[a],
                                      consistent |-> RLe[Rat[7, 10], score[a]]]],
              consistent |-> RLe[Rat[7, 10], overall_consistency]]

\* round(x, 3), in thousandths, for x >= 0.  The float sum is within a few
\* ulps of the exact value x: away from a tie both round alike; at an exact
\* tie the float may lie on either side, so both neighbours are possible.
Round3(x) ==
    LET q == (x[1] * 1000) \div x[2]
        r == (x[1] * 1000) % x[2]
    IN  IF 2 * r < x[2] THEN {q}
        ELSE IF 2 * r > x[2] THEN {q + 1}
        ELSE {q, q + 1}

\* The weighted sum with the weights of quality and compliance exchanged.
WeightedScore_SwappedWeights(quality_scores, educational_compliance, bias_detection, consistency_check) ==
    LET quality_avg ==
            RMul[RSum[[c \in DOMAIN quality_scores |-> quality_scores[c].score]],
                 Rat[1, Len(quality_scores)]]
        educational_avg ==
            RMul[RSum[[s \in DOMAIN educational_compliance |-> educational_compliance[s].score]],
                 Rat[1, Len(educational_compliance)]]
        bias_score == IF bias_detection.bias_free THEN Rat[1, 1] ELSE Rat[0, 1]
        consistency_score ==
            IF consistency_check.has_overall THEN consistency_check.overall_consistency
            ELSE Rat[1, 1]
    IN  RAdd[RAdd[RMul[quality_avg, Rat[3, 10]], RMul[educational_avg, Rat[4, 10]]],
             RAdd[RMul[bias_score, Rat[2, 10]], RMul[consistency_score, Rat[1, 10]]]]

\* The weighted sum that gives the bias weight to every response.
WeightedScore_BiasWeightAlways(quality_scores, educational_compliance, bias_detection, consistency_check) ==
    LET quality_avg ==
            RMul[RSum[[c \in DOMAIN quality_scores |-> quality_scores[c].score]],
                 Rat[1, Len(quality_scores)]]
        educational_avg ==
            RMul[RSum[[s \in DOMAIN educational_compliance |-> educational_compliance[s].score]],
                 Rat[1, Len(educational_compliance)]]
        consistency_score ==
            IF consistency_check.has_overall THEN consistency_check.overall_consistency
            ELSE Rat[1, 1]
    IN  RAdd[RAdd[RMul[quality_avg, Rat[4, 10]], RMul[educational_avg, Rat[3, 10]]],
             RAdd[Rat[2, 10], RMul[consistency_score, Rat[1, 10]]]]

\* The weighted sum of CheckerAgent._calculate_overall_score, before rounding.
WeightedScore(quality_scores, educational_compliance, bias_detection, consistency_check) ==
    LET quality_avg ==
            RMul[RSum[[c \in DOMAIN quality_scores |-> quality_scores[c].score]],
                 Rat[1, Len(quality_scores)]]
        educational_avg ==
            RMul[RSum[[s \in DOMAIN educational_compliance |-> educational_compliance[s].score]],
                 Rat[1, Len(educational_compliance)]]
        bias_score == IF bias_detection.bias_free THEN Rat[1, 1] ELSE Rat[0, 1]
        consistency_score ==
            IF consistency_check.has_overall THEN consistency_check.overall_consistency
            ELSE Rat[1, 1]
    IN  RAdd[RAdd[RMul[quality_avg, Rat[4, 10]], RMul[educational_avg, Rat[3, 10]]],
             RAdd[RMul[bias_score, Rat[2, 10]], RMul[consistency_score, Rat[1, 10]]]]

\* CheckerAgent._calculate_overall_score: the values round() can give, in thousandths.
CalculateOverallScore(quality_scores, educational_compliance, bias_detection, consistency_check) ==
    Round3(WeightedScore(quality_scores, educational_compliance,
                         bias_detection, consistency_check))

\* overall_score >= 0.7 and len(bias_detection['detected_biases']) == 0
Approved(overall_score, bias_detection) ==
    RLe[Rat[7, 10], overall_score] /\ Cardinality(bias_detection.detected_biases) = 0

\* CheckerAgent._generate_recommendations(validation_results): what each
\* recommendation is about, in the order they are appended.
GenerateRecommendations(validation_results) ==
    LET pick(about, names, flagged(_)) ==
            LET kept == SelectSeq([k \in DOMAIN names |-> k], flagged)
            IN  [j \in DOMAIN kept |-> [about |-> about, subject |-> names[kept[j]]]]
        check == validation_results.consistency_check
    IN  pick("quality", [c \in DOMAIN QualityCriteria |-> QualityCriteria[c].criterion],
             LAMBDA c : ~validation_results.quality_scores[c].meets_threshold)
        \o pick("educational",
                [e \in DOMAIN EducationalStandards |-> EducationalStandards[e].standard],
                LAMBDA e : ~validation_results.educational_compliance[e].compliant)
        \o pick("bias", [b \in DOMAIN BiasPatterns |-> BiasPatterns[b].bias],
                LAMBDA b : BiasPatterns[b].bias
                               \in validation_results.bias_detection.detected_biases)
        \o (IF check.has_overall
                THEN pick("consistency", ConsistencyChecks,
                          LAMBDA a : ~check.aspect_results[a].consistent)
            ELSE <<>>)

\* The validation_results validate_response builds from its four parts.
ValidationResults(quality_scores, educational_compliance, bias_detection, consistency_check) ==
    {[status |-> "returned",
      overall_score |-> Rat[k, 1000],
      quality_scores |-> quality_scores,
      educational_compliance |-> educational_compliance,
      bias_detection |-> bias_detection,
      consistency_check |-> consistency_check,
      approved |-> Approved(Rat[k, 1000], bias_detection)] :
     k \in CalculateOverallScore(quality_scores, educational_compliance,
                                 bias_detection, consistency_check)}

\* CheckerAgent.validate_response: the outcomes of one call.  The parts are
\* computed in the order of the source, so an exception in one part ends
\* the call before the later parts, the approval and the store.
ValidateResponse(content, hist, known) ==
    IF CheckEducationalStandards(content).status = "raised"
        THEN {CheckEducationalStandards(content)}
    ELSE UNION {ValidationResults(quality_scores, educational_compliance,
                                  bias_detection, consistency_check) :
                   quality_scores \in {AssessQuality(content)},
                   educational_compliance \in {CheckEducationalStandards(content).value},
                   bias_detection \in {DetectBias(content)},
                   consistency_check \in {CheckConsistency(content, hist, known)}}

\* One call _calculate_overall_score(quality_scores, educational_compliance,
\* bias_detection, consistency_check): the arguments and the values it can return.
OverallScoreCalls(quality_scores, educational_compliance, bias_detection, consistency_check) ==
    {[status |-> "returned",
      quality_scores |-> quality_scores,
      educational_compliance |-> educational_compliance,
      bias_detection |-> bias_detection,
      consistency_check |-> consistency_check,
      overall_score |-> Rat[k, 1000]] :
     k \in CalculateOverallScore(quality_scores, educational_compliance,
                                 bias_detection, consistency_check)}

\* Phrases joined by single spaces.
RECURSIVE Join(_)
Join(phrases) ==
    IF phrases = <<>> THEN <<>>
    ELSE IF Len(phrases) = 1 THEN phrases[1]
    ELSE phrases[1] \o <<" ">> \o Join(Tail(phrases))

\* A response that holds every quality indicator.
GoodBase ==
    Join([k \in 1..12 |->
            QualityCriteria[((k - 1) \div 3) + 1].indicators[((k - 1) % 3) + 1]])

\* A response that holds the clarity indicators only.
MidBase == Join(QualityCriteria[1].indicators)

ResponseBases == {<<>>, MidBase, GoodBase}

\* Phrases a response may end with: they trigger bias patterns, a negative
\* indicator, the tone check and the requirement checks.
TailPhrases ==
    {Spaced(<<"native", "speaker">>), Spaced(<<"He", "is", "strong">>),
     <<"unclear">>, <<"good">>, <<"culture">>, <<"research">>}

ResponseTails ==
    {Join(w) : w \in UNION {[1..n -> TailPhrases] : n \in 0..MaxTailLen}}

Responses == {Join(SelectSeq(<<b, e>>, LAMBDA p : p # <<>>)) :
                 b \in ResponseBases, e \in ResponseTails}

\* Earlier responses of the learner, newest first: none, encouraging ones,
\* others, and more than _get_recent_interactions fetches (the newest five
\* are mostly encouraging, all six are not).
Histories ==
    LET e == Spaced(<<"Well", "done">>)
        p == Spaced(<<"try", "again">>)
    IN  {<<>>, <<e>>, <<p>>, <<p, e>>, <<e, e, e, p, p, p>>}

\* The arguments of one validate_response call.
InitValidator ==
    /\ user_input = <<>>
    /\ classification = NoResult
    /\ response \in Responses
    /\ learner_known \in BOOLEAN
    /\ history \in IF learner_known THEN Histories ELSE {<<>>}
    /\ validation = NoResult
    /\ overall = NoResult
    /\ memories = <<>>
    /\ now = 0
    /\ last = NoResult
    /\ ops = 0
    /\ profiles = <<>>
    /\ interactions = <<>>
    /\ requests = <<>>
    /\ reply = NoResult
    /\ generated = NoResult
    /\ demo = [interactions |-> <<>>, reply |-> NoResult]

\* One call validate_response(assistant_response, processed_input, interaction_id).
Validate ==
    /\ validation = NoResult
    /\ validation' \in ValidateResponse(response, history, learner_known)
    /\ UNCHANGED <<response, history, learner_known, overall, classifierVars, storeVars, pipelineVars, demoVars>>

\* One call of _calculate_overall_score on the parts the checker computes
\* for the response: the scoring function applied on its own.
CalculateOverall ==
    /\ overall = NoResult
    /\ overall' \in UNION {OverallScoreCalls(quality_scores, educational_compliance,
                                             bias_detection, consistency_check) :
                              quality_scores \in {AssessQuality(response)},
                              educational_compliance \in {StandardCompliance(response)},
                              bias_detection \in {DetectBias(response)},
                              consistency_check \in
                                  {CheckConsistency(response, history, learner_known)}}
    /\ UNCHANGED <<response, history, learner_known, validation, classifierVars, storeVars, pipelineVars, demoVars>>

\* One call of _generate_recommendations on the parts and the score of the
\* call before (validate_response, lines 153-155).
Recommend ==
    /\ overall.status = "returned"
    /\ "recommendations" \notin DOMAIN overall
    /\ overall' = [status |-> "returned",
                   quality_scores |-> overall.quality_scores,
                   educational_compliance |-> overall.educational_compliance,
                   bias_detection |-> overall.bias_detection,
                   consistency_check |-> overall.consistency_check,
                   overall_score |-> overall.overall_score,
                   recommendations |-> GenerateRecommendations(overall)]
    /\ UNCHANGED <<response, history, learner_known, validation, classifierVars, storeVars, pipelineVars, demoVars>>

SpecValidate == InitValidator /\ [][Validate \/ CalculateOverall \/ Recommend]_vars

\* ------------------------------------------------- validator: the claims

\* A call of validate_response has ended.
Validated == validation # NoResult

\* At least one bias category is detected in the response.
BiasDetected == \E b \in DOMAIN BiasPatterns : BiasMatches(b, response) > 0

C2_ApprovedIffScoreAndNoBias ==
    Validated =>
        /\ validation.status = "returned"
        /\ validation.approved <=>
               /\ RLe[Rat[7, 10], validation.overall_score]
               /\ validation.bias_detection.detected_biases = {}

\* A call of _calculate_overall_score has returned.
Scored == overall # NoResult

\* The mean of the score entries of a table of results, times 1000.
MeanThousandths(table) ==
    RMul[RSum[[k \in DOMAIN table |-> table[k].score]], Rat[1000, Len(table)]]

\* 0.4 x mean quality + 0.3 x mean compliance + 0.2 x (1 if no bias, else 0)
\* + 0.1 x overall consistency, in thousandths, from the arguments of the
\* call (a check without a learner to compare with counts as consistency 1).
ClaimedThousandths ==
    LET bias == IF overall.bias_detection.detected_biases = {} THEN 1000 ELSE 0
        consistency ==
            IF overall.consistency_check.has_overall
                THEN RMul[overall.consistency_check.overall_consistency, Rat[1000, 1]]
            ELSE Rat[1000, 1]
    IN  RAdd[RAdd[RMul[MeanThousandths(overall.quality_scores), Rat[4, 10]],
                  RMul[MeanThousandths(overall.educational_compliance), Rat[3, 10]]],
             RAdd[Rat[2 * bias, 10], RMul[consistency, Rat[1, 10]]]]

\* C3: the overall score is the claimed weighted sum rounded to 3 decimals
\* (a whole number of thousandths at most half a thousandth away from it),
\* and it lies in [0, 1].
C3_OverallIsRoundedWeightedSum ==
    Scored =>
        LET thousandths == RMul[overall.overall_score, Rat[1000, 1]]
            off == RSub[thousandths, ClaimedThousandths]
        IN  /\ thousandths[2] = 1
            /\ RLe[Rat[-1, 2], off] /\ RLe[off, Rat[1, 2]]
            /\ RLe[Rat[0, 1], overall.overall_score]
            /\ RLe[overall.overall_score, Rat[1, 1]]

\* The score of a biased response of a known learner whose weighted sum is
\* not a whole number of thousandths, so that the rounding shows.
C3_Witness ==
    /\ Scored
    /\ overall.bias_detection.detected_biases # {}
    /\ overall.consistency_check.has_overall
    /\ ClaimedThousandths[2] # 1
    /\ RLt[Rat[0, 1], overall.overall_score]

\* ------------------------------------------------------------ memory store

\* An argument left at its default None.
None == "None"

\* The store_memory calls of a run: learner, key, category and importance.
\* handle_feedback stores feedback_<id> as long_term with importance
\* rating / 5; the others are direct calls, one with the default importance
\* 1.0, one with importance 0 and one with an importance above 1.
StoreCalls ==
    {[learner_id |-> 1, memory_key |-> "feedback_1", memory_type |-> "long_term",
      importance |-> Rat[1, 5]],
     [learner_id |-> 1, memory_key |-> "note", memory_type |-> "long_term",
      importance |-> Rat[1, 1]],
     [learner_id |-> 1, memory_key |-> "draft", memory_type |-> "episodic",
      importance |-> Rat[0, 1]],
     [learner_id |-> 2, memory_key |-> "note", memory_type |-> "short_term",
      importance |-> Rat[3, 1]]}

\* The retrieve_memory calls of a run: process_user_input asks for the
\* learner's top 5, get_learner_memory for a category with limit 20; the
\* others filter by key or cut to one record.
RetrieveCalls ==
    {[learner_id |-> 1, memory_key |-> None, memory_type |-> None, limit |-> 5],
     [learner_id |-> 2, memory_key |-> None, memory_type |-> None, limit |-> 5],
     [learner_id |-> 1, memory_key |-> None, memory_type |-> "long_term", limit |-> 20],
     [learner_id |-> 1, memory_key |-> "feedback", memory_type |-> None, limit |-> 10],
     [learner_id |-> 1, memory_key |-> None, memory_type |-> None, limit |-> 1]}

\* AgentMemory.memory_key.contains(memory_key) on the keys above.
Contains(key, part) ==
    \/ key = part
    \/ <<key, part>> \in {<<"feedback_1", "feedback">>}

\* A row whose retention starts at the importance it is stored with.
NewMemory_RetentionFromImportance(call, t) ==
    [learner_id |-> call.learner_id,
     memory_key |-> call.memory_key,
     memory_type |-> call.memory_type,
     importance_score |-> call.importance,
     access_count |-> 0,
     last_accessed |-> t,
     retention_strength |-> call.importance,
     created_at |-> t]

\* The AgentMemory row store_memory adds at time t, with the column defaults.
NewMemory(call, t) ==
    [learner_id |-> call.learner_id,
     memory_key |-> call.memory_key,
     memory_type |-> call.memory_type,
     importance_score |-> call.importance,
     access_count |-> 0,
     last_accessed |-> t,
     retention_strength |-> Rat[1, 1],
     created_at |-> t]

\* importance_score * (1 / (1 + 0.1 * time_since_creation)), the time in days.
Retention(importance_score, time_since_creation) ==
    RMul[importance_score, Rat[10, 10 + time_since_creation]]

\* update_access that measures the time since the last access.
UpdateAccess_SinceLastAccess(memory, t) ==
    [memory EXCEPT !.access_count = @ + 1,
                   !.last_accessed = t,
                   !.retention_strength =
                       Retention(memory.importance_score, t - memory.last_accessed)]

\* update_access that leaves the counter alone.
UpdateAccess_NoCount(memory, t) ==
    [memory EXCEPT !.last_accessed = t,
                   !.retention_strength =
                       Retention(memory.importance_score, t - memory.created_at)]

\* AgentMemory.update_access at time t.
UpdateAccess(memory, t) ==
    [memory EXCEPT !.access_count = @ + 1,
                   !.last_accessed = t,
                   !.retention_strength =
                       Retention(memory.importance_score, t - memory.created_at)]

\* The rows the filters of retrieve_memory keep.
Query(table, call) ==
    {i \in DOMAIN table :
        /\ table[i].learner_id = call.learner_id
        /\ call.memory_key # None => Contains(table[i].memory_key, call.memory_key)
        /\ call.memory_type # None => table[i].memory_type = call.memory_type}

\* A variant of the ordering that sorts by importance alone.
Before_ImportanceOnly(a, b) == RLt[b.importance_score, a.importance_score]

\* Row a comes before row b in ORDER BY importance_score DESC, last_accessed DESC.
Before(a, b) ==
    \/ RLt[b.importance_score, a.importance_score]
    \/ /\ REq[a.importance_score, b.importance_score]
       /\ a.last_accessed > b.last_accessed

\* The lists query.order_by(...).limit(limit).all() can give: rows that tie
\* in both columns come in any order.
QueryResults(table, call) ==
    LET rows == Query(table, call)
        n == IF Cardinality(rows) < call.limit THEN Cardinality(rows) ELSE call.limit
    IN  {ret \in [1..n -> rows] :
            /\ \A j, k \in 1..n : j < k =>
                   /\ ret[j] # ret[k]
                   /\ ~Before(table[ret[k]], table[ret[j]])
            /\ \A i \in rows : \A j \in 1..n :
                   (\A k \in 1..n : ret[k] # i) => ~Before(table[i], table[ret[j]])}

\* The table after update_access on every returned row.
Accessed(table, ret, t) ==
    [i \in DOMAIN table |->
        IF \E k \in DOMAIN ret : ret[k] = i THEN UpdateAccess(table[i], t)
        ELSE table[i]]

\* The memory store before its first operation: an empty table.
InitStore ==
    /\ user_input = <<>>
    /\ classification = NoResult
    /\ response = <<>>
    /\ history = <<>>
    /\ learner_known = FALSE
    /\ validation = NoResult
    /\ overall = NoResult
    /\ memories = <<>>
    /\ now = 0
    /\ last = NoResult
    /\ ops = 0
    /\ profiles = <<>>
    /\ interactions = <<>>
    /\ requests = <<>>
    /\ reply = NoResult
    /\ generated = NoResult
    /\ demo = [interactions |-> <<>>, reply |-> NoResult]

\* One call store_memory(learner_id, memory_key, content, memory_type, importance).
StoreMemory ==
    /\ ops < MaxOps
    /\ \E call \in StoreCalls :
           /\ memories' = Append(memories, NewMemory(call, now))
           /\ last' = [op |-> "store", call |-> call]
    /\ ops' = ops + 1
    /\ UNCHANGED <<now, classifierVars, validatorVars, pipelineVars, demoVars>>

\* One call retrieve_memory(learner_id, memory_key, memory_type, limit).
RetrieveMemory ==
    /\ ops < MaxOps
    /\ \E call \in RetrieveCalls :
           \E ret \in QueryResults(memories, call) :
               /\ memories' = Accessed(memories, ret, now)
               /\ last' = [op |-> "retrieve", call |-> call,
                           returned |-> ret, previous |-> memories]
    /\ ops' = ops + 1
    /\ UNCHANGED <<now, classifierVars, validatorVars, pipelineVars, demoVars>>

\* A day passes.
Tick ==
    /\ ops < MaxOps
    /\ now' = now + 1
    /\ ops' = ops + 1
    /\ UNCHANGED <<memories, last, classifierVars, validatorVars, pipelineVars, demoVars>>

SpecStore == InitStore /\ [][StoreMemory \/ RetrieveMemory \/ Tick]_vars

\* --------------------------------------------- memory store: the claims

\* Row i is in the list the last retrieve_memory call returned.
WasReturned(i) == \E k \in DOMAIN last.returned : last.returned[k] = i

\* The step is a retrieve_memory call that returns row i.
Returns(i) ==
    /\ now' = now
    /\ last'.op = "retrieve"
    /\ \E k \in DOMAIN last'.returned : last'.returned[k] = i

\* C9: a retrieve_memory call adds exactly 1 to the access_count of every
\* row it returns and recomputes its retention; every other row (filtered
\* out, cut by the limit, of another learner) keeps its access_count and
\* retention, and so does every row in any other operation: access_count
\* never decreases and no row disappears.
C9_RetrieveCountsEachReturnedRowOnce ==
    [][/\ Len(memories') >= Len(memories)
       /\ \A i \in DOMAIN memories :
              IF Returns(i)
                  THEN /\ memories'[i].access_count = memories[i].access_count + 1
                       /\ REq[RMul[memories'[i].retention_strength,
                                   Rat[10 + (now - memories[i].created_at), 10]],
                              memories[i].importance_score]
              ELSE /\ memories'[i].access_count = memories[i].access_count
                   /\ memories'[i].retention_strength = memories[i].retention_strength]_vars

\* A retrieval cut by its limit: a row was returned and counted, a second
\* row of the same learner passed the filters and was left out, and a row of
\* another learner exists.
C9_Witness ==
    /\ last # NoResult
    /\ last.op = "retrieve"
    /\ \E i, j, k \in DOMAIN memories :
           /\ WasReturned(i)
           /\ memories[i].access_count = last.previous[i].access_count + 1
           /\ ~WasReturned(j)
           /\ j \in Query(last.previous, last.call)
           /\ memories[k].learner_id # last.call.learner_id

\* Row i was returned by the last retrieve_memory call and had been
\* accessed before, at an earlier age.
AccessedAgain(i) ==
    /\ last # NoResult
    /\ last.op = "retrieve"
    /\ WasReturned(i)
    /\ last.previous[i].access_count > 0
    /\ last.previous[i].last_accessed < memories[i].last_accessed

\* The retention stored for row i is importance / (1 + 0.1 x age_days), the
\* age counted from the creation of the row to its last access.
RetentionFromCreation(i) ==
    REq[RMul[memories[i].retention_strength,
             Rat[10 + (memories[i].last_accessed - memories[i].created_at), 10]],
        memories[i].importance_score]

\* C10 as claimed: the retention written at an access is importance /
\* (1 + 0.1 x age_days) with the age counted from creation, and for every
\* importance from 0 up an access at a later age stores a strictly smaller
\* retention than the access before it.
C10_RetentionStrictlyDecreasesWithAge ==
    \A i \in DOMAIN memories :
        /\ (last # NoResult /\ last.op = "retrieve" /\ WasReturned(i))
               => RetentionFromCreation(i)
        /\ AccessedAgain(i) =>
               RLt[memories[i].retention_strength, last.previous[i].retention_strength]

\* C10 as amended: the retention written at an access is importance /
\* (1 + 0.1 x age_days) with the age counted from creation; an access at a
\* later age stores a strictly smaller retention when the importance is
\* above 0, and the same retention, 0, when the importance is 0.
C10_RetentionDecreasesForPositiveImportance ==
    \A i \in DOMAIN memories :
        /\ (last # NoResult /\ last.op = "retrieve" /\ WasReturned(i))
               => RetentionFromCreation(i)
        /\ AccessedAgain(i) =>
               IF RLt[Rat[0, 1], memories[i].importance_score]
                   THEN RLt[memories[i].retention_strength,
                            last.previous[i].retention_strength]
               ELSE /\ memories[i].retention_strength = Rat[0, 1]
                    /\ last.previous[i].retention_strength = Rat[0, 1]

\* A row of positive importance accessed a second time on a later day than
\* its first access, which was itself later than its creation.
C10_Witness ==
    \E i \in DOMAIN memories :
        /\ AccessedAgain(i)
        /\ RLt[Rat[0, 1], memories[i].importance_score]
        /\ last.previous[i].last_accessed > memories[i].created_at

\* ------------------------------------------------------------ chat pipeline

\* Most chat and process_user_input calls in one run.
MaxRequests == 2

\* A column or field that holds NULL / None; a set one holds <<value>>.
Null == <<>>

Some(v) == <<v>>

\* The learner ids of the requests; LearnerProfile.query.get finds no row for the last.
LearnerIds == {1, 2, 3}

\* "I see, thank you"
ThankYou == <<"I", " ", "see", ",", " ", "thank", " ", "you">>

\* The POST /chat bodies of a run: learner id and message.  A question,
\* an acknowledgement and two language requests (one with a comma between
\* two words) from learner 1, an acknowledgement from learner 2, a learner
\* that does not exist and a body without a message.
ChatBodies ==
    {[learner_id |-> 1, has_message |-> TRUE, message |-> CommaQuestion],
     [learner_id |-> 1, has_message |-> TRUE, message |-> ThankYou],
     [learner_id |-> 1, has_message |-> TRUE, message |-> <<"grammar">>],
     [learner_id |-> 1, has_message |-> TRUE, message |-> <<"grammar", ",", " ", "spelling">>],
     [learner_id |-> 2, has_message |-> TRUE, message |-> ThankYou],
     [learner_id |-> 3, has_message |-> TRUE, message |-> ThankYou],
     [learner_id |-> 1, has_message |-> FALSE, message |-> <<>>]}

\* The direct process_user_input calls of a run: a learner that exists, one
\* that does not.
DirectCalls ==
    {[learner_id |-> 1, message |-> <<"usage">>],
     [learner_id |-> 3, message |-> <<"usage">>]}

\* classify_intent on the messages of a run.
ClassifiedMessage ==
    [m \in {b.message : b \in ChatBodies} \cup {c.message : c \in DirectCalls} |->
        ClassifyIntent(m)]

\* The rating field of a feedback request body: JSON integers, a JSON
\* float, and a body without the field.
Ratings ==
    {[kind |-> "int", num |-> 0], [kind |-> "int", num |-> 1],
     [kind |-> "int", num |-> 5], [kind |-> "int", num |-> 6],
     [kind |-> "float", num |-> 3], [kind |-> "missing", num |-> 0]}

\* The feedback_text field: absent, empty and a comment.
FeedbackTexts == {None, "", "clear and helpful"}

\* f"feedback_{interaction_id}"
FeedbackKey(interaction_id) ==
    <<"feedback_1", "feedback_2", "feedback_3", "feedback_4">>[interaction_id]

\* UserAgent.store_memory that replaces the learner's row of the same key.
StoreMemoryRow_ReplaceSameKey(table, call, t) ==
    IF \E i \in DOMAIN table : /\ table[i].learner_id = call.learner_id
                               /\ table[i].memory_key = call.memory_key
        THEN [i \in DOMAIN table |->
                 IF /\ table[i].learner_id = call.learner_id
                    /\ table[i].memory_key = call.memory_key
                     THEN NewMemory(call, t)
                 ELSE table[i]]
    ELSE Append(table, NewMemory(call, t))

\* UserAgent.store_memory: the table after db.session.add(memory) and commit.
StoreMemoryRow(table, call, t) == Append(table, NewMemory(call, t))

\* A variant of the Interaction constructor call that already fills the
\* validation column.
NewInteraction_Prevalidated(session_id, learner_id, text, classified, t) ==
    [session_id |-> session_id,
     learner_id |-> learner_id,
     user_input |-> text,
     intent_type |-> classified.intent,
     confidence_score |-> classified.confidence,
     assistant_response |-> Null,
     checker_validation |-> Some([status |-> "pending"]),
     user_rating |-> Null,
     created_at |-> t,
     completed_at |-> Null]

\* The Interaction row process_user_input builds: the five constructor
\* arguments, the other columns at their defaults.
NewInteraction(session_id, learner_id, text, classified, t) ==
    [session_id |-> session_id,
     learner_id |-> learner_id,
     user_input |-> text,
     intent_type |-> classified.intent,
     confidence_score |-> classified.confidence,
     assistant_response |-> Null,
     checker_validation |-> Null,
     user_rating |-> Null,
     created_at |-> t,
     completed_at |-> Null]

\* UserAgent.extract_context, the fields later steps read, and the
\* interaction count of manage_conversation_state (context_window = 5).
\* extract_context that also puts the raw text in the context it builds.
ExtractContext_WithUserInput(text, profile, table, session_id, learner_id) ==
    LET recent == {i \in DOMAIN table : /\ table[i].session_id = session_id
                                        /\ table[i].learner_id = learner_id}
    IN  [status |-> "returned",
         user_input |-> text,
         word_count |-> WordCount(text),
         has_question_mark |-> \E k \in DOMAIN text : text[k] = "?",
         course_type |-> profile.course_type,
         proficiency_level |-> profile.proficiency_level,
         preferred_language |-> profile.preferred_language,
         interaction_count |-> IF Cardinality(recent) < 5 THEN Cardinality(recent) ELSE 5]

ExtractContext(text, profile, table, session_id, learner_id) ==
    LET recent == {i \in DOMAIN table : /\ table[i].session_id = session_id
                                        /\ table[i].learner_id = learner_id}
    IN  [status |-> "returned",
         word_count |-> WordCount(text),
         has_question_mark |-> \E k \in DOMAIN text : text[k] = "?",
         course_type |-> profile.course_type,
         proficiency_level |-> profile.proficiency_level,
         preferred_language |-> profile.preferred_language,
         interaction_count |-> IF Cardinality(recent) < 5 THEN Cardinality(recent) ELSE 5]

\* The handler AssistantAgent.generate_response selects for an intent, and
\* the first method of the handler that the class does not define (None
\* when every method it calls exists).
Handlers ==
    {[intent |-> "Answer", type |-> "answer", srl_focus |-> "cognitive",
      undefined |-> "_get_follow_up_suggestions"],
     [intent |-> "R Language Use", type |-> "language_feedback", srl_focus |-> "cognitive",
      undefined |-> None],
     [intent |-> "R Revision", type |-> "revision", srl_focus |-> "metacognitive",
      undefined |-> "_analyze_for_revision"],
     [intent |-> "R Evaluation", type |-> "evaluation", srl_focus |-> "metacognitive",
      undefined |-> "_evaluate_writing"],
     [intent |-> "R Generation", type |-> "generation", srl_focus |-> "cognitive",
      undefined |-> "_generate_writing_content"],
     [intent |-> "R Information", type |-> "information", srl_focus |-> "cognitive",
      undefined |-> "_extract_topic"],
     [intent |-> "ACK", type |-> "acknowledgment", srl_focus |-> "motivational",
      undefined |-> None],
     [intent |-> "Negotiation", type |-> "negotiation", srl_focus |-> "social_behavioral",
      undefined |-> "_generate_discussion_response"]}

\* The else branch: _handle_general_request.
GeneralHandler ==
    [intent |-> "Other", type |-> "general", srl_focus |-> "metacognitive", undefined |-> None]

\* A variant of the dispatch that sends every intent to the general handler.
HandlerFor_AlwaysGeneral(intent) == GeneralHandler

HandlerFor(intent) ==
    IF \E h \in Handlers : h.intent = intent
        THEN CHOOSE h \in Handlers : h.intent = intent
    ELSE GeneralHandler

\* AssistantAgent._analyze_language_use(text): re.findall of the grammar and
\* the vocabulary patterns, in the order of the pattern lists.  findall
\* gives the group of a pattern that has one and the whole match of the
\* comma pattern, which has none.  The first two grammar patterns ask for
\* "is", "are", "was", "were", "a" or "an" before a blank, which no message
\* of the model has.
AnalyzeLanguageUse(text) ==
    LET n == Len(text)
        word_after(i) == LET j == SkipSpace(text, i + 1)
                         IN  j > i + 1 /\ j <= n /\ IsWord(text[j])
        comma_end(i) ==
            IF /\ IsWord(text[i])
               /\ (i = 1 \/ ~IsWord(text[i - 1]))
               /\ i + 1 <= n
               /\ text[i + 1] = ","
               /\ SkipSpace(text, i + 2) <= n
               /\ IsWord(text[SkipSpace(text, i + 2)])
                THEN SkipSpace(text, i + 2)
            ELSE 0
        commas[i \in 1..(n + 1)] ==
            IF i > n THEN <<>>
            ELSE IF comma_end(i) > 0
                THEN <<SubSeq(text, i, comma_end(i))>> \o commas[comma_end(i) + 1]
            ELSE commas[i + 1]
        blank_after(i) == i + 1 <= n /\ text[i + 1] \in Whitespace
        subordinate[i \in 1..(n + 1)] ==
            IF i > n THEN <<>>
            ELSE (IF LowerAtom(text[i]) \in {"because", "since", "although"} /\ blank_after(i)
                      THEN << <<text[i]>> >> ELSE <<>>) \o subordinate[i + 1]
        intensifier[i \in 1..(n + 1)] ==
            IF i > n THEN <<>>
            ELSE (IF LowerAtom(text[i]) \in {"very", "really", "quite"} /\ word_after(i)
                      THEN << <<text[i]>> >> ELSE <<>>) \o intensifier[i + 1]
        plain(words) ==
            LET found == SelectSeq(text, LAMBDA a : LowerAtom(a) \in words)
            IN  [k \in DOMAIN found |-> <<found[k]>>]
    IN  [grammar_issues |-> commas[1] \o subordinate[1],
         vocabulary_suggestions |->
             intensifier[1] \o plain({"good", "bad", "nice", "big"})
                 \o plain({"thing", "stuff", "get", "put"})]

\* AssistantAgent._format_language_feedback(analysis): the first three
\* issues of each list under its heading, the lines joined by "\n".
FormatLanguageFeedback(analysis) ==
    LET first3(list) == SubSeq(list, 1, IF Len(list) < 3 THEN Len(list) ELSE 3)
        RECURSIVE lines(_, _)
        lines(opening, list) ==
            IF list = <<>> THEN <<>>
            ELSE <<"\n", "-", " ">> \o opening \o <<":", " ", "'">> \o Head(list) \o <<"'">>
                     \o lines(opening, Tail(list))
        grammar ==
            IF analysis.grammar_issues = <<>> THEN <<>>
            ELSE <<"*", "*">> \o Spaced(<<"Grammar", "Suggestions">>) \o <<":", "*", "*">>
                     \o lines(Spaced(<<"Consider", "revising">>), first3(analysis.grammar_issues))
        vocabulary ==
            IF analysis.vocabulary_suggestions = <<>> THEN <<>>
            ELSE <<"\n", "*", "*">> \o Spaced(<<"Vocabulary", "Enhancements">>) \o <<":", "*", "*">>
                     \o lines(Spaced(<<"Try", "using", "more", "specific", "words",
                                       "instead", "of">>),
                              first3(analysis.vocabulary_suggestions))
    IN  IF grammar = <<>> /\ vocabulary = <<>>
            THEN Spaced(<<"Your", "language", "use", "looks", "good", "overall">>) \o <<"!">>
        ELSE IF grammar = <<>> THEN vocabulary
        ELSE IF vocabulary = <<>> THEN grammar
        ELSE grammar \o <<"\n">> \o vocabulary

\* The sentence that opens the text of a handler that returns; of the
\* language handler, the feedback it puts between its fixed opening and
\* closing, made from context['user_input'] or from "" when the context
\* has no such key.
ResponseBody(type, context) ==
    CASE type = "acknowledgment" ->
            <<"Great", "!", " ", "I", "'", "m", " ">>
                \o Spaced(<<"glad", "that", "was", "helpful">>) \o <<".">>
      [] type = "language_feedback" ->
            FormatLanguageFeedback(AnalyzeLanguageUse(
                IF "user_input" \in DOMAIN context THEN context.user_input ELSE <<>>))
      [] OTHER ->
            <<"I", "'", "m", " ">>
                \o Spaced(<<"here", "to", "help", "you", "with", "your", "writing">>) \o <<"!">>

\* self.srl_strategies[srl_focus][0], the strategy _select_srl_strategy picks.
SrlStrategy(srl_focus) ==
    CASE srl_focus = "motivational" ->
            Spaced(<<"Remember", "why", "this", "writing", "task", "is",
                     "important", "to", "you">>) \o <<".">>
      [] srl_focus = "cognitive" ->
            <<"Let", "'", "s", " ">> \o Spaced(<<"break", "this", "down", "into", "smaller">>)
                \o <<",", " ">> \o Spaced(<<"manageable", "parts">>) \o <<".">>
      [] srl_focus = "social_behavioral" ->
            Spaced(<<"Consider", "discussing", "this", "topic", "with", "classmates",
                     "or", "friends">>) \o <<".">>
      [] OTHER ->
            Spaced(<<"What", "is", "your", "main", "goal", "for", "this",
                     "writing", "task">>) \o <<"?">>

\* AssistantAgent._add_srl_strategies: "\n\n**Learning Strategy Tip:** <strategy>"
AddSrlStrategies(content, srl_focus) ==
    content \o <<"\n", "\n", "*", "*">> \o Spaced(<<"Learning", "Strategy", "Tip">>)
        \o <<":", "*", "*", " ">> \o SrlStrategy(srl_focus)

\* AssistantAgent._simplify_language, word by word.
SimplifyLanguage(t) ==
    [k \in DOMAIN t |->
        CASE t[k] = "utilize" -> "use"
          [] t[k] = "demonstrate" -> "show"
          [] t[k] = "facilitate" -> "help"
          [] t[k] = "implement" -> "do"
          [] OTHER -> t[k]]

\* The opening words of the note _personalize_response adds for a course.
CourseNote(course_type) ==
    CASE course_type = "SW" ->
            <<"\n", "\n", "*", "Note", ":", " ">> \o Spaced(<<"For", "scientific", "writing">>)
      [] course_type = "AW" ->
            <<"\n", "\n", "*", "Note", ":", " ">>
                \o Spaced(<<"Consider", "advanced", "rhetorical", "strategies">>)
      [] OTHER -> <<>>

\* AssistantAgent._personalize_response
PersonalizeResponse(content, profile) ==
    (IF profile.proficiency_level = "beginner" THEN SimplifyLanguage(content) ELSE content)
        \o CourseNote(profile.course_type)

\* AssistantAgent.generate_response(processed_input)
GenerateResponse(intent, context, profile) ==
    LET handler == HandlerFor(intent)
    IN  IF handler.undefined # None THEN AttributeError
        ELSE [status |-> "returned",
              type |-> handler.type,
              srl_suggestion |-> SrlStrategy(handler.srl_focus),
              content |-> PersonalizeResponse(
                              AddSrlStrategies(ResponseBody(handler.type, context),
                                               handler.srl_focus),
                              profile)]

\* The assistant_response column of the learner's rows that hold a
\* response, newest first: what _get_recent_interactions orders and cuts.
ResponsesOf(table, learner_id) ==
    LET rows == {i \in DOMAIN table : /\ table[i].learner_id = learner_id
                                      /\ table[i].assistant_response # Null}
        RECURSIVE newest_first(_)
        newest_first(left) ==
            IF left = {} THEN <<>>
            ELSE LET i == CHOOSE i \in left : \A j \in left : j <= i
                 IN  <<table[i].assistant_response[1]>> \o newest_first(left \ {i})
    IN  newest_first(rows)

\* handle_feedback that also takes the rating for the confidence of the turn.
HandleFeedback_RescoresConfidence(table, store, interaction_id, rating, feedback_text, t) ==
    IF interaction_id \notin DOMAIN table THEN [interactions |-> table, memories |-> store]
    ELSE [interactions |-> [table EXCEPT ![interaction_id].user_rating = Some(rating),
                                         ![interaction_id].completed_at = Some(t),
                                         ![interaction_id].confidence_score = Rat[rating, 5]],
          memories |->
              IF feedback_text \in {None, ""} THEN store
              ELSE StoreMemoryRow(store,
                                  [learner_id |-> table[interaction_id].learner_id,
                                   memory_key |-> FeedbackKey(interaction_id),
                                   memory_type |-> "long_term",
                                   importance |-> Rat[rating, 5]], t)]

\* handle_feedback that keeps the rating an interaction already has.
HandleFeedback_KeepsFirstRating(table, store, interaction_id, rating, feedback_text, t) ==
    IF interaction_id \notin DOMAIN table THEN [interactions |-> table, memories |-> store]
    ELSE IF table[interaction_id].user_rating # Null
        THEN [interactions |-> table, memories |-> store]
    ELSE [interactions |-> [table EXCEPT ![interaction_id].user_rating = Some(rating),
                                         ![interaction_id].completed_at = Some(t)],
          memories |->
              IF feedback_text \in {None, ""} THEN store
              ELSE StoreMemoryRow(store,
                                  [learner_id |-> table[interaction_id].learner_id,
                                   memory_key |-> FeedbackKey(interaction_id),
                                   memory_type |-> "long_term",
                                   importance |-> Rat[rating, 5]], t)]

\* UserAgent.handle_feedback: the interactions and agent_memory tables
\* after the call.  A missing interaction changes nothing; a feedback text
\* that is None or empty stores no memory.
HandleFeedback(table, store, interaction_id, rating, feedback_text, t) ==
    IF interaction_id \notin DOMAIN table THEN [interactions |-> table, memories |-> store]
    ELSE [interactions |-> [table EXCEPT ![interaction_id].user_rating = Some(rating),
                                         ![interaction_id].completed_at = Some(t)],
          memories |->
              IF feedback_text \in {None, ""} THEN store
              ELSE StoreMemoryRow(store,
                                  [learner_id |-> table[interaction_id].learner_id,
                                   memory_key |-> FeedbackKey(interaction_id),
                                   memory_type |-> "long_term",
                                   importance |-> Rat[rating, 5]], t)]

\* submit_feedback's check of the rating field: isinstance(rating, int)
\* and 1 <= rating <= 5.
ValidRating_NoUpperBound(rating) == rating.kind = "int" /\ rating.num >= 1

ValidRating(rating) == rating.kind = "int" /\ rating.num >= 1 /\ rating.num <= 5

\* UserAgent.update_learner_profile on the learner's row.
UpdatedProfile(profile, is_multilingual, avg_input_length) ==
    [profile EXCEPT
        !.preferred_language = IF is_multilingual THEN "mixed" ELSE @,
        !.proficiency_level =
            IF avg_input_length > 500
                THEN CASE @ = "beginner" -> "intermediate"
                       [] @ = "intermediate" -> "advanced"
                       [] OTHER -> @
            ELSE @]

\* A call that has just arrived.  pc is the step of the code it runs next,
\* trace the stages it has reached, learner the LearnerProfile object
\* process_user_input loads.
NewRequest(via, learner_id, message) ==
    [via |-> via,
     learner_id |-> learner_id,
     session_id |-> "s1",
     message |-> message,
     pc |-> "classify",
     trace |-> <<"received">>,
     learner |-> Null,
     classified |-> NoResult,
     context |-> NoResult,
     memories |-> <<>>,
     loaded |-> <<>>,
     interaction_id |-> Null,
     learner_profile |-> Null,
     response |-> NoResult,
     status |-> "pending"]

\* The statement order without the extract_context step.
StepAfter_NoContext(pc) ==
    CASE pc = "classify" -> "retrieve"
      [] pc = "retrieve" -> "update"
      [] pc = "update" -> "persist"
      [] pc = "persist" -> "generate"
      [] pc = "generate" -> "validate"
      [] OTHER -> "done"

\* The statement order of process_user_input (user_agent.py:257-292) and
\* chat (sage_api.py:128-149): the step that follows step pc.
StepAfter(pc) ==
    CASE pc = "classify" -> "extract"
      [] pc = "extract" -> "retrieve"
      [] pc = "retrieve" -> "update"
      [] pc = "update" -> "persist"
      [] pc = "persist" -> "generate"
      [] pc = "generate" -> "validate"
      [] OTHER -> "done"

\* The call is over with the given answer.
Ended(req, status) == [req EXCEPT !.pc = "done", !.status = status]

\* An exception leaves the call: chat()'s except clause answers 500, a
\* direct caller of process_user_input sees the exception.
Raised(req, error) == Ended(req, IF req.via = "chat" THEN "500" ELSE error)

\* The tables the pipeline starts from: two learners exist, learner 1 has
\* one stored memory that was never retrieved, and there is no interaction yet.
InitChat ==
    /\ user_input = <<>>
    /\ classification = NoResult
    /\ response = <<>>
    /\ history = <<>>
    /\ learner_known = FALSE
    /\ validation = NoResult
    /\ overall = NoResult
    /\ memories = <<NewMemory([learner_id |-> 1, memory_key |-> "note",
                                memory_type |-> "long_term", importance |-> Rat[1, 1]], 0)>>
    /\ now = 0
    /\ last = NoResult
    /\ ops = 0
    /\ profiles = <<[course_type |-> "IRW", proficiency_level |-> "intermediate",
                     preferred_language |-> "en"],
                    [course_type |-> "SW", proficiency_level |-> "beginner",
                     preferred_language |-> "en"]>>
    /\ interactions = <<>>
    /\ requests = <<>>
    /\ reply = NoResult
    /\ generated = NoResult
    /\ demo = [interactions |-> <<>>, reply |-> NoResult]

\* POST /chat arrives: the required fields and the learner are checked
\* (sage_api.py:111-126) before process_user_input is called.
ReceiveChat ==
    /\ Len(requests) < MaxRequests
    /\ \E body \in ChatBodies :
           requests' = Append(requests,
               LET req == NewRequest("chat", body.learner_id, body.message)
               IN  IF ~body.has_message THEN Ended(req, "400")
                   ELSE IF body.learner_id \notin DOMAIN profiles THEN Ended(req, "404")
                   ELSE req)
    /\ UNCHANGED <<profiles, interactions, reply, classifierVars, validatorVars,
                   storeVars, demoVars>>

\* A direct call process_user_input(user_input, learner_id, session_id).
CallProcessInput ==
    /\ Len(requests) < MaxRequests
    /\ \E call \in DirectCalls :
           requests' = Append(requests, NewRequest("direct", call.learner_id, call.message))
    /\ UNCHANGED <<profiles, interactions, reply, classifierVars, validatorVars,
                   storeVars, demoVars>>

\* process_user_input, lines 257-263: the learner is looked up, a missing
\* one raises ValueError; then classify_intent.
ClassifyStep ==
    \E r \in DOMAIN requests :
        /\ requests[r].pc = "classify"
        /\ LET req == requests[r]
               classified == ClassifiedMessage[req.message]
           IN  requests' = [requests EXCEPT ![r] =
                   IF req.learner_id \notin DOMAIN profiles THEN Raised(req, "ValueError")
                   ELSE IF classified.status = "raised" THEN Raised(req, "ZeroDivisionError")
                   ELSE [req EXCEPT !.learner = Some(profiles[req.learner_id]),
                                    !.classified = classified,
                                    !.trace = Append(@, "intent-classified"),
                                    !.pc = StepAfter(req.pc)]]
        /\ UNCHANGED <<profiles, interactions, reply, classifierVars, validatorVars,
                       storeVars, demoVars>>

\* process_user_input, lines 265-269: extract_context and manage_conversation_state.
ExtractContextStep ==
    \E r \in DOMAIN requests :
        /\ requests[r].pc = "extract"
        /\ LET req == requests[r]
           IN  requests' = [requests EXCEPT ![r] =
                   [req EXCEPT !.context = ExtractContext(req.message, req.learner[1], interactions,
                                                          req.session_id, req.learner_id),
                               !.trace = Append(@, "context-extracted"),
                               !.pc = StepAfter(req.pc)]]
        /\ UNCHANGED <<profiles, interactions, reply, classifierVars, validatorVars,
                       storeVars, demoVars>>

\* process_user_input, line 272, first half: the query of retrieve_memory
\* (user_agent.py:229-241) loads the learner's top 5 rows into the
\* request's session, as they are in the table at that moment.
RetrieveStep ==
    \E r \in DOMAIN requests :
        /\ requests[r].pc = "retrieve"
        /\ LET req == requests[r]
               call == [learner_id |-> req.learner_id, memory_key |-> None,
                        memory_type |-> None, limit |-> 5]
           IN  \E ret \in QueryResults(memories, call) :
                   requests' = [requests EXCEPT ![r] =
                       [req EXCEPT !.memories = ret,
                                   !.loaded = [k \in DOMAIN ret |-> memories[ret[k]]],
                                   !.pc = StepAfter(req.pc)]]
        /\ UNCHANGED <<profiles, interactions, reply, storeVars, classifierVars,
                       validatorVars, demoVars>>

\* process_user_input, line 272, second half: update_access on every loaded
\* row (user_agent.py:243-245).  Nothing locks the rows between the query
\* and here: the first row is written from the values the query loaded;
\* each commit expires the session's objects, so a later row is read again
\* right before it is written.
UpdateAccessStep ==
    \E r \in DOMAIN requests :
        /\ requests[r].pc = "update"
        /\ LET req == requests[r]
           IN  /\ memories' =
                      [i \in DOMAIN memories |->
                          IF req.memories # <<>> /\ req.memories[1] = i
                              THEN UpdateAccess(req.loaded[1], now)
                          ELSE IF \E k \in DOMAIN req.memories : req.memories[k] = i
                              THEN UpdateAccess(memories[i], now)
                          ELSE memories[i]]
               /\ requests' = [requests EXCEPT ![r] = [req EXCEPT !.pc = StepAfter(req.pc)]]
        /\ UNCHANGED <<profiles, interactions, reply, now, last, ops, classifierVars,
                       validatorVars, demoVars>>

\* A variant of the insert that serves a session's second request from the
\* row the session already has, instead of adding one.
PersistStep_OneRowPerSession ==
    \E r \in DOMAIN requests :
        /\ requests[r].pc = "persist"
        /\ LET req == requests[r]
               same == {i \in DOMAIN interactions :
                           /\ interactions[i].session_id = req.session_id
                           /\ interactions[i].learner_id = req.learner_id}
               id == IF same = {} THEN Len(interactions) + 1 ELSE CHOOSE i \in same : TRUE
           IN  /\ interactions' =
                      IF same = {}
                          THEN Append(interactions,
                                      NewInteraction(req.session_id, req.learner_id,
                                                     req.message, req.classified, now))
                      ELSE interactions
               /\ requests' = [requests EXCEPT ![r] =
                      [req EXCEPT !.interaction_id = Some(id),
                                  !.learner_profile = Some(profiles[req.learner_id]),
                                  !.trace = Append(@, "interaction-persisted"),
                                  !.pc = IF req.via = "chat" THEN StepAfter(req.pc) ELSE "done",
                                  !.status = IF req.via = "chat" THEN @ ELSE "returned"]]
        /\ UNCHANGED <<profiles, reply, classifierVars, validatorVars, storeVars, demoVars>>

\* process_user_input, lines 274-301: the Interaction row is added and
\* committed; the direct call returns here.
PersistStep ==
    \E r \in DOMAIN requests :
        /\ requests[r].pc = "persist"
        /\ LET req == requests[r]
           IN  /\ interactions' = Append(interactions,
                      NewInteraction(req.session_id, req.learner_id, req.message,
                                     req.classified, now))
               /\ requests' = [requests EXCEPT ![r] =
                      [req EXCEPT !.interaction_id = Some(Len(interactions) + 1),
                                  !.learner_profile = Some(profiles[req.learner_id]),
                                  !.trace = Append(@, "interaction-persisted"),
                                  !.pc = IF req.via = "chat" THEN StepAfter(req.pc) ELSE "done",
                                  !.status = IF req.via = "chat" THEN @ ELSE "returned"]]
        /\ UNCHANGED <<profiles, reply, classifierVars, validatorVars, storeVars, demoVars>>

\* chat(), step 2: assistant_agent.generate_response(processed_input).
GenerateStep ==
    \E r \in DOMAIN requests :
        /\ requests[r].pc = "generate"
        /\ LET req == requests[r]
               assistant_response == GenerateResponse(req.classified.intent, req.context,
                                                      req.learner_profile[1])
           IN  requests' = [requests EXCEPT ![r] =
                   IF assistant_response.status = "raised" THEN Raised(req, "AttributeError")
                   ELSE [req EXCEPT !.response = assistant_response,
                                    !.trace = Append(@, "response-generated"),
                                    !.pc = StepAfter(req.pc)]]
        /\ UNCHANGED <<profiles, interactions, reply, classifierVars, validatorVars,
                       storeVars, demoVars>>

\* chat(), steps 3 to 5: validate_response, which stores its result on the
\* interaction as its last act; then the response is written to the
\* interaction and the request is answered.  An exception in
\* validate_response skips all of it.
ValidateStep ==
    \E r \in DOMAIN requests :
        /\ requests[r].pc = "validate"
        /\ LET req == requests[r]
               id == req.interaction_id[1]
           IN  \E v \in ValidateResponse(req.response.content,
                                         ResponsesOf(interactions, req.learner_id), TRUE) :
                   IF v.status = "raised"
                       THEN /\ requests' = [requests EXCEPT ![r] = Raised(req, "AttributeError")]
                            /\ UNCHANGED interactions
                   ELSE /\ interactions' =
                               [interactions EXCEPT ![id].checker_validation = Some(v),
                                                    ![id].assistant_response =
                                                        Some(req.response.content)]
                        /\ requests' = [requests EXCEPT ![r] =
                               Ended([req EXCEPT !.trace = @ \o <<"validated", "completed">>],
                                     "200")]
        /\ UNCHANGED <<profiles, reply, classifierVars, validatorVars, storeVars, demoVars>>

SpecChat ==
    InitChat /\ [][\/ ReceiveChat \/ CallProcessInput
                   \/ ClassifyStep \/ ExtractContextStep \/ RetrieveStep
                   \/ UpdateAccessStep \/ PersistStep \/ GenerateStep \/ ValidateStep]_vars

\* ------------------------------------------------- whole requests, in turn

\* Most requests and calls in one run.
MaxCalls == 4

\* The rating and feedback_text fields of the POST /feedback bodies of a
\* run: valid and invalid ratings with a comment, and a valid rating with
\* no comment and with an empty one.
FeedbackBodies ==
    {[rating |-> r, feedback_text |-> "clear and helpful"] : r \in Ratings}
        \cup {[rating |-> [kind |-> "int", num |-> 5], feedback_text |-> t] : t \in FeedbackTexts}

\* The update_learner_profile calls of a run.
UpdateCalls ==
    {[op |-> "update_learner_profile", learner_id |-> 1, is_multilingual |-> TRUE,
      avg_input_length |-> 501],
     [op |-> "update_learner_profile", learner_id |-> 3, is_multilingual |-> FALSE,
      avg_input_length |-> 0]}

\* process_user_input that looks the learner up after it has stored the row.
ProcessUserInput_LateLearnerCheck(learner_id, text) ==
    LET classified == ClassifiedMessage[text]
        stored == Append(interactions, NewInteraction("s1", learner_id, text, classified, now))
    IN  IF learner_id \notin DOMAIN profiles
            THEN {[status |-> "raised", error |-> "ValueError",
                   interactions |-> stored, memories |-> memories]}
        ELSE {[status |-> "returned", error |-> None,
               interaction_id |-> Len(stored),
               intent |-> classified.intent,
               confidence |-> classified.confidence,
               context |-> ExtractContext(text, profiles[learner_id], interactions,
                                          "s1", learner_id),
               learner_profile |-> profiles[learner_id],
               interactions |-> stored,
               memories |-> Accessed(memories, ret, now)] :
              ret \in QueryResults(memories, [learner_id |-> learner_id, memory_key |-> None,
                                              memory_type |-> None, limit |-> 5])}

\* UserAgent.process_user_input, the whole call: what it raises or returns,
\* and the interactions and agent_memory tables after it.
ProcessUserInput(learner_id, text) ==
    IF learner_id \notin DOMAIN profiles
        THEN {[status |-> "raised", error |-> "ValueError",
               interactions |-> interactions, memories |-> memories]}
    ELSE IF ClassifiedMessage[text].status = "raised"
        THEN {[status |-> "raised", error |-> "ZeroDivisionError",
               interactions |-> interactions, memories |-> memories]}
    ELSE LET classified == ClassifiedMessage[text]
         IN  {[status |-> "returned", error |-> None,
               interaction_id |-> Len(interactions) + 1,
               intent |-> classified.intent,
               confidence |-> classified.confidence,
               context |-> ExtractContext(text, profiles[learner_id], interactions,
                                          "s1", learner_id),
               learner_profile |-> profiles[learner_id],
               interactions |-> Append(interactions,
                                       NewInteraction("s1", learner_id, text, classified, now)),
               memories |-> Accessed(memories, ret, now)] :
              ret \in QueryResults(memories, [learner_id |-> learner_id, memory_key |-> None,
                                              memory_type |-> None, limit |-> 5])}

\* chat(), steps 2 to 5 after process_user_input has returned p: the
\* answers the request can get, and the tables after it.
ChatAfterInput(p, learner_id) ==
    LET assistant_response == GenerateResponse(p.intent, p.context, p.learner_profile)
    IN  IF assistant_response.status = "raised"
            THEN {[status |-> "500", interactions |-> p.interactions, memories |-> p.memories]}
        ELSE {IF v.status = "raised"
                  THEN [status |-> "500", interactions |-> p.interactions,
                        memories |-> p.memories]
              ELSE [status |-> "200",
                    interactions |->
                        [p.interactions EXCEPT
                            ![p.interaction_id].checker_validation = Some(v),
                            ![p.interaction_id].assistant_response =
                                Some(assistant_response.content)],
                    memories |-> p.memories] :
              v \in ValidateResponse(assistant_response.content,
                                     ResponsesOf(p.interactions, learner_id), TRUE)}

\* chat(), the whole handler.
ChatHandler(body) ==
    IF ~body.has_message
        THEN {[status |-> "400", interactions |-> interactions, memories |-> memories]}
    ELSE IF body.learner_id \notin DOMAIN profiles
        THEN {[status |-> "404", interactions |-> interactions, memories |-> memories]}
    ELSE UNION {IF p.status = "raised"
                    THEN {[status |-> "500", interactions |-> p.interactions,
                           memories |-> p.memories]}
                ELSE ChatAfterInput(p, body.learner_id) :
                p \in ProcessUserInput(body.learner_id, body.message)}

\* Two learners, no interaction and no memory yet; requests are served one
\* after the other.
InitFeedback ==
    /\ user_input = <<>>
    /\ classification = NoResult
    /\ response = <<>>
    /\ history = <<>>
    /\ learner_known = FALSE
    /\ validation = NoResult
    /\ overall = NoResult
    /\ memories = <<>>
    /\ now = 0
    /\ last = NoResult
    /\ ops = 0
    /\ profiles = <<[course_type |-> "IRW", proficiency_level |-> "intermediate",
                     preferred_language |-> "en"],
                    [course_type |-> "SW", proficiency_level |-> "beginner",
                     preferred_language |-> "en"]>>
    /\ interactions = <<>>
    /\ requests = <<>>
    /\ reply = NoResult
    /\ generated = NoResult
    /\ demo = [interactions |-> <<>>, reply |-> NoResult]

\* POST /chat, the whole handler.
Chat ==
    /\ ops < MaxCalls
    /\ \E body \in ChatBodies :
           \E out \in ChatHandler(body) :
               /\ interactions' = out.interactions
               /\ memories' = out.memories
               /\ reply' = [request |-> [op |-> "chat", learner_id |-> body.learner_id,
                                         has_message |-> body.has_message,
                                         message |-> body.message],
                            status |-> out.status, error |-> None]
    /\ ops' = ops + 1
    /\ UNCHANGED <<profiles, requests, now, last, classifierVars, validatorVars, demoVars>>

\* A direct call process_user_input(user_input, learner_id, session_id).
ProcessInput ==
    /\ ops < MaxCalls
    /\ \E call \in DirectCalls :
           \E out \in ProcessUserInput(call.learner_id, call.message) :
               /\ interactions' = out.interactions
               /\ memories' = out.memories
               /\ reply' = [request |-> [op |-> "process_user_input",
                                         learner_id |-> call.learner_id,
                                         message |-> call.message],
                            status |-> out.status, error |-> out.error]
    /\ ops' = ops + 1
    /\ UNCHANGED <<profiles, requests, now, last, classifierVars, validatorVars, demoVars>>

\* POST /feedback, the whole handler: the rating is checked, then
\* handle_feedback runs.
SubmitFeedback ==
    /\ ops < MaxCalls
    /\ \E interaction_id \in 1..(Len(interactions) + 1), body \in FeedbackBodies :
           LET rating == body.rating
               feedback_text == body.feedback_text
               request == [op |-> "submit_feedback", interaction_id |-> interaction_id,
                           rating |-> rating, feedback_text |-> feedback_text]
           IN  IF rating.kind = "missing"
                   THEN /\ reply' = [request |-> request, status |-> "400",
                                     error |-> "Missing required field: rating"]
                        /\ UNCHANGED <<interactions, memories>>
               ELSE IF ~ValidRating(rating)
                   THEN /\ reply' = [request |-> request, status |-> "400",
                                     error |-> "Rating must be an integer between 1 and 5"]
                        /\ UNCHANGED <<interactions, memories>>
               ELSE LET after == HandleFeedback(interactions, memories, interaction_id,
                                                rating.num, feedback_text, now)
                    IN  /\ interactions' = after.interactions
                        /\ memories' = after.memories
                        /\ reply' = [request |-> request, status |-> "200", error |-> None]
    /\ ops' = ops + 1
    /\ UNCHANGED <<profiles, requests, now, last, classifierVars, validatorVars, demoVars>>

\* A call update_learner_profile(learner_id, interaction_data); a missing
\* learner returns at once.
UpdateLearnerProfile ==
    /\ ops < MaxCalls
    /\ \E call \in UpdateCalls :
           /\ profiles' = IF call.learner_id \notin DOMAIN profiles THEN profiles
                          ELSE [profiles EXCEPT ![call.learner_id] =
                                   UpdatedProfile(@, call.is_multilingual,
                                                  call.avg_input_length)]
           /\ reply' = [request |-> call, status |-> "returned", error |-> None]
    /\ ops' = ops + 1
    /\ UNCHANGED <<interactions, requests, memories, now, last, classifierVars,
                   validatorVars, demoVars>>

SpecFeedback ==
    InitFeedback /\ [][Chat \/ ProcessInput \/ SubmitFeedback \/ UpdateLearnerProfile]_vars

\* --------------------------------------------- whole requests: the claims

\* The step just taken served a request of kind op.
Served(op) == ops' = ops + 1 /\ reply'.request.op = op

\* The table grew by exactly one row at its end, and kept every old row.
AppendedOne(before, after) ==
    /\ Len(after) = Len(before) + 1
    /\ \A i \in DOMAIN before : after[i] = before[i]

\* C11: a feedback submission with a rating r in 1..5 and a non-empty text
\* on an existing interaction appends exactly one agent_memory row: of
\* category long_term, with importance r/5 (1.0 for r = 5), for the
\* interaction's learner, under the key feedback_<id>; every earlier row,
\* one of the same key included, stays as it was.  Without a text no row is
\* added.
C11_FeedbackAppendsOneLongTermMemory ==
    [][Served("submit_feedback") =>
          LET req == reply'.request
              r == req.rating
              id == req.interaction_id
          IN  (r.kind = "int" /\ r.num \in 1..5 /\ id \in DOMAIN interactions) =>
                  IF req.feedback_text \in {None, ""}
                      THEN memories' = memories
                  ELSE /\ AppendedOne(memories, memories')
                       /\ LET row == memories'[Len(memories')]
                          IN  /\ row.memory_type = "long_term"
                              /\ row.learner_id = interactions[id].learner_id
                              /\ row.memory_key = FeedbackKey(id)
                              /\ row.importance_score[1] * 5 = r.num * row.importance_score[2]
                              /\ (r.num = 5 => row.importance_score = <<1, 1>>)]_vars

\* Two feedback rows of one key stand side by side, the later one from a
\* rating of 5.
C11_Witness ==
    /\ reply # NoResult
    /\ reply.request.op = "submit_feedback"
    /\ reply.status = "200"
    /\ \E i, j \in DOMAIN memories :
           /\ i < j
           /\ j = Len(memories)
           /\ memories[i].memory_key = memories[j].memory_key
           /\ memories[i].learner_id = memories[j].learner_id
           /\ memories[i].importance_score = <<1, 5>>
           /\ memories[j].importance_score = <<1, 1>>

\* C12: a feedback submission whose rating is an integer outside 1..5 is
\* answered 400 with the invalid-rating error and changes neither table:
\* the interaction keeps its rating and its completion time, and no memory
\* is added.
C12_InvalidRatingChangesNothing ==
    [][Served("submit_feedback") =>
          LET r == reply'.request.rating
          IN  (r.kind = "int" /\ r.num \notin 1..5) =>
                  /\ reply'.status = "400"
                  /\ reply'.error = "Rating must be an integer between 1 and 5"
                  /\ interactions' = interactions
                  /\ memories' = memories]_vars

\* A rating of 6 with a comment was refused for an interaction that
\* exists and already carries a rating.
C12_Witness ==
    /\ reply # NoResult
    /\ reply.request.op = "submit_feedback"
    /\ reply.request.rating = [kind |-> "int", num |-> 6]
    /\ reply.request.feedback_text = "clear and helpful"
    /\ reply.status = "400"
    /\ reply.request.interaction_id \in DOMAIN interactions
    /\ interactions[reply.request.interaction_id].user_rating = Some(5)

\* C13: process_user_input for a learner id without a LearnerProfile row
\* raises the learner-not-found ValueError and leaves the interactions
\* table and every agent_memory row as they were.
C13_UnknownLearnerTouchesNothing ==
    [][Served("process_user_input") =>
          (reply'.request.learner_id \notin DOMAIN profiles =>
              /\ reply'.status = "raised"
              /\ reply'.error = "ValueError"
              /\ interactions' = interactions
              /\ memories' = memories)]_vars

\* The call for the unknown learner was refused while interactions and
\* memories of other learners were stored.
C13_Witness ==
    /\ reply # NoResult
    /\ reply.request.op = "process_user_input"
    /\ reply.request.learner_id \notin DOMAIN profiles
    /\ reply.status = "raised"
    /\ interactions # <<>>
    /\ memories # <<>>

\* C14: the intent and the confidence of an interaction are those
\* classify_intent gave for its input when process_user_input created the
\* row, and no later request (chat, feedback, profile update, the memory
\* retrieval of a later turn) changes them.
C14_IntentAndConfidenceSetOnce ==
    [][/\ \A i \in DOMAIN interactions :
              /\ i \in DOMAIN interactions'
              /\ interactions'[i].intent_type = interactions[i].intent_type
              /\ interactions'[i].confidence_score = interactions[i].confidence_score
       /\ \A i \in DOMAIN interactions' \ DOMAIN interactions :
              /\ interactions'[i].intent_type =
                     ClassifiedMessage[interactions'[i].user_input].intent
              /\ interactions'[i].confidence_score =
                     ClassifiedMessage[interactions'[i].user_input].confidence]_vars

\* An interaction that was rated, whose learner's profile was updated and
\* whose learner's memory was read again by a later turn.
C14_Witness ==
    /\ Len(interactions) >= 2
    /\ interactions[1].user_rating # Null
    /\ interactions[1].intent_type = "ACK"
    /\ profiles[interactions[1].learner_id].preferred_language = "mixed"
    /\ \E m \in DOMAIN memories :
           /\ memories[m].learner_id = interactions[1].learner_id
           /\ memories[m].access_count > 0

\* ------------------------------------------------------------------------
\* The chat pipeline, step by step: the claims
\* ------------------------------------------------------------------------

\* The chat request r was answered 500 after its interaction was committed.
FailedAfterPersist(r) ==
    /\ requests[r].via = "chat"
    /\ requests[r].status = "500"
    /\ requests[r].interaction_id # Null

\* C15: when a chat request fails after its interaction was persisted, the
\* interaction row is still in the table, with the request's learner and
\* input, and both its response and its validation are null.
C15_FailedRequestLeavesBareInteraction ==
    \A r \in DOMAIN requests :
        FailedAfterPersist(r) =>
            LET id == requests[r].interaction_id[1]
            IN  /\ id \in DOMAIN interactions
                /\ interactions[id].learner_id = requests[r].learner_id
                /\ interactions[id].user_input = requests[r].message
                /\ interactions[id].assistant_response = Null
                /\ interactions[id].checker_validation = Null

\* One request failed in generate_response and another in
\* validate_response, both after their interactions were committed.
C15_Witness ==
    /\ \E r \in DOMAIN requests :
           /\ FailedAfterPersist(r)
           /\ requests[r].trace[Len(requests[r].trace)] = "interaction-persisted"
    /\ \E r \in DOMAIN requests :
           /\ FailedAfterPersist(r)
           /\ requests[r].trace[Len(requests[r].trace)] = "response-generated"

\* s is an initial part of t.
IsPrefix(s, t) == Len(s) <= Len(t) /\ s = SubSeq(t, 1, Len(s))

\* The stages in the order of the statements of process_user_input and chat.
StageOrder ==
    <<"received", "intent-classified", "context-extracted", "interaction-persisted",
      "response-generated", "validated", "completed">>

\* The stages in the order the claim gives them.
ClaimedStageOrder ==
    <<"received", "context-extracted", "intent-classified", "interaction-persisted",
      "response-generated", "validated", "completed">>

C18_FirstTurnIsFullyConsistent ==
    (Scored /\ learner_known /\ history = <<>>) =>
        LET check == overall.consistency_check
        IN  /\ check.has_overall
            /\ check.overall_consistency = Rat[1, 1]
            /\ check.consistent
            /\ \A a \in DOMAIN check.aspect_results :
                   /\ check.aspect_results[a].score = Rat[1, 1]
                   /\ check.aspect_results[a].consistent

\* The consistency of a response without encouraging words was checked for a
\* learner without earlier responses.
C18_Witness ==
    /\ Scored
    /\ learner_known
    /\ history = <<>>
    /\ response # <<>>
    /\ ~AnyInText(EncouragingWords, Lower(response))
    /\ Len(overall.consistency_check.aspect_results) = Len(ConsistencyChecks)

\* positive matches / positive indicators - 0.2 x negative matches.
RawCriterionScore(c) ==
    RSub[Rat[CountIn(QualityCriteria[c].indicators, Lower(response)),
             Len(QualityCriteria[c].indicators)],
         Rat[2 * CountIn(QualityCriteria[c].negative_indicators, Lower(response)), 10]]

\* C19: every quality criterion score is max(0, min(1, positive matches /
\* positive indicators - 0.2 x negative matches)) and lies in [0, 1]; a
\* response without any of a criterion's positive indicators, the empty
\* response among them, scores 0 on it and misses its threshold.
C19_CriterionScoreFormula ==
    Scored =>
        \A c \in DOMAIN QualityCriteria :
            LET q == overall.quality_scores[c]
                raw == RawCriterionScore(c)
            IN  /\ q.score = (IF RLt[raw, Rat[0, 1]] THEN Rat[0, 1]
                               ELSE IF RLt[Rat[1, 1], raw] THEN Rat[1, 1]
                               ELSE raw)
                /\ RLe[Rat[0, 1], q.score]
                /\ RLe[q.score, Rat[1, 1]]
                /\ CountIn(QualityCriteria[c].indicators, Lower(response)) = 0 =>
                       /\ q.score = Rat[0, 1]
                       /\ ~q.meets_threshold

\* The scores of a response that holds every positive indicator and one
\* negative indicator of one criterion, and no positive indicator of another.
C19_Witness ==
    /\ Scored
    /\ \E c \in DOMAIN QualityCriteria :
           /\ CountIn(QualityCriteria[c].indicators, Lower(response)) = 3
           /\ CountIn(QualityCriteria[c].negative_indicators, Lower(response)) = 1
           /\ overall.quality_scores[c].score = Rat[8, 10]
    /\ \E c \in DOMAIN QualityCriteria :
           /\ CountIn(QualityCriteria[c].indicators, Lower(response)) = 0
           /\ overall.quality_scores[c].score = Rat[0, 1]
           /\ ~overall.quality_scores[c].meets_threshold

\* ------------------------------------------------------------------------
\* The demo server (app.py) and the Llama integration
\* ------------------------------------------------------------------------

\* Calls a run of the demo model makes.
MaxDemoCalls == 2

\* LlamaIntegration.model_name (llama_integration.py:21).
ModelName == "meta-llama/Meta-Llama-3-8B-Instruct"

\* Intents generate_response is called with: two with a fallback entry of
\* their own, two without.
LlamaIntents == {"Answer", "R Revision", "ACK", "Negotiation"}

\* The context argument: context.get('interaction_count', 0) and
\* context.get('avg_rating', 0); the first is the empty dict of app.py.
LlamaContexts ==
    {[interaction_count |-> 0, avg_rating |-> 0],
     [interaction_count |-> 7, avg_rating |-> 2],
     [interaction_count |-> 7, avg_rating |-> 4]}

\* What requests.post can come to: a response with a status code, whose body
\* holds choices[0].message.content or does not, or an exception.
CallOutcomes ==
    {[kind |-> "response", status_code |-> 200, well_formed |-> TRUE, text |-> t] :
        t \in {<<"Use", " ", "a", " ", "comma", ".">>,
               <<" ", "\n", "Keep", " ", "going", "!", " ", "\n">>}}
    \cup {[kind |-> "response", status_code |-> 200, well_formed |-> FALSE, text |-> <<>>]}
    \cup {[kind |-> "response", status_code |-> c, well_formed |-> TRUE, text |-> <<>>] :
             c \in {429, 500}}
    \cup {[kind |-> k, status_code |-> 0, well_formed |-> FALSE, text |-> <<>>] :
             k \in {"ConnectionError", "Timeout"}}

\* The call that was not made.
NotCalled == [kind |-> "none", status_code |-> 0, well_formed |-> FALSE, text |-> <<>>]

\* str.strip(): the text without its leading and trailing whitespace.
StripText(t) ==
    LET kept == {i \in DOMAIN t : t[i] \notin Whitespace}
    IN  IF kept = {} THEN <<>>
        ELSE SubSeq(t, CHOOSE i \in kept : \A j \in kept : i <= j,
                       CHOOSE i \in kept : \A j \in kept : j <= i)

\* LlamaIntegration._call_llm: the stripped content of a 200 response; any
\* other status, a body without the content and any exception of
\* requests.post are raised to the caller.
CallLlm(outcome) ==
    IF outcome.kind = "response" /\ outcome.status_code = 200 /\ outcome.well_formed
        THEN [status |-> "returned", content |-> StripText(outcome.text)]
    ELSE [status |-> "raised", content |-> <<>>]

\* LlamaIntegration.srl_strategies (llama_integration.py:107-134): the first
\* strategy of each type.
LlamaSrlStrategies ==
    [cognitive |-> "Break down complex writing tasks into smaller, manageable steps.",
     metacognitive |-> "Set specific, achievable goals for each writing session.",
     social_behavioral |-> "Seek feedback from peers or instructors on your writing.",
     motivational |-> "Remember your personal goals for improving English writing."]

\* LlamaIntegration._select_srl_strategy
SelectSrlStrategy(intent, context) ==
    LET srl_type == CASE intent \in {"R Revision", "R Evaluation"} -> "metacognitive"
                      [] intent = "ACK" -> "motivational"
                      [] intent = "Negotiation" -> "social_behavioral"
                      [] OTHER -> "cognitive"
    IN  IF context.interaction_count < 5 THEN LlamaSrlStrategies.motivational
        ELSE IF context.avg_rating < 3 THEN LlamaSrlStrategies.social_behavioral
        ELSE LlamaSrlStrategies[srl_type]

\* fallback_responses of _generate_fallback_response, and the default of its .get().
FallbackResponses ==
    [intent \in {"Answer", "R Language Use", "R Revision", "R Evaluation",
                 "R Generation", "R Information"} |->
        CASE intent = "Answer" ->
                 "I'd be happy to help answer your question. Could you please provide more specific details about what you'd like to know?"
          [] intent = "R Language Use" ->
                 "I can help you improve your language use. Please share the text you'd like me to review, and I'll provide specific suggestions for grammar, vocabulary, and clarity."
          [] intent = "R Revision" ->
                 "I can assist you with revising your writing. Please share your draft, and I'll help you improve its organization, development, and flow."
          [] intent = "R Evaluation" ->
                 "I can provide feedback on your writing. Please share your text, and I'll give you a balanced evaluation with specific suggestions for improvement."
          [] intent = "R Generation" ->
                 "I can help you generate ideas and content for your writing. What specific topic or type of writing are you working on?"
          [] OTHER ->
                 "I can provide information to help with your writing. What specific topic or writing concept would you like to learn more about?"]

GenericFallback == "I'm here to help you with your English writing. How can I assist you today?"

\* A variant of _generate_fallback_response that answers every intent with
\* the generic string.
GenerateFallbackResponse_AlwaysGeneric(intent, t) ==
    [content |-> <<GenericFallback>>,
     intent |-> intent,
     srl_strategy |-> "Focus on your learning goals and don't hesitate to ask for help when you need it.",
     model_used |-> "fallback",
     timestamp |-> t,
     personalized |-> FALSE]

\* LlamaIntegration._generate_fallback_response
GenerateFallbackResponse(intent, t) ==
    [content |-> <<IF intent \in DOMAIN FallbackResponses THEN FallbackResponses[intent]
                   ELSE GenericFallback>>,
     intent |-> intent,
     srl_strategy |-> "Focus on your learning goals and don't hesitate to ask for help when you need it.",
     model_used |-> "fallback",
     timestamp |-> t,
     personalized |-> FALSE]

\* LlamaIntegration.generate_response: the prompt goes out with the call, the
\* call's outcome decides between the generated text and the fallback.
LlamaGenerate(intent, context, outcome, t) ==
    LET text == CallLlm(outcome)
    IN  IF text.status = "raised" THEN GenerateFallbackResponse(intent, t)
        ELSE [content |-> text.content,
              intent |-> intent,
              srl_strategy |-> SelectSrlStrategy(intent, context),
              model_used |-> ModelName,
              timestamp |-> t,
              personalized |-> TRUE]

\* LlamaIntegration.check_model_availability: the test call answered 200.
CheckModelAvailability(probe) == probe.kind = "response" /\ probe.status_code = 200

\* LlamaIntegration.generate_educational_response: generate_response with
\* the 'Answer' intent and an empty context.  Its except clause is not
\* modelled: generate_response catches every exception itself.
GenerateEducationalResponse(outcome, t) ==
    LET answer == LlamaGenerate("Answer", [interaction_count |-> 0, avg_rating |-> 0],
                                  outcome, t)
    IN  [content |-> answer.content,
         intent |-> answer.intent,
         confidence |-> Rat[9, 10],
         srl_suggestion |-> answer.srl_strategy]

\* JSON bodies of POST /api/sage/chat of the demo server.
DemoBodies ==
    {[has_learner_id |-> TRUE, has_message |-> TRUE, learner_id |-> 1,
      message |-> CommaQuestion, session_id |-> Null],
     [has_learner_id |-> TRUE, has_message |-> TRUE, learner_id |-> 2,
      message |-> ThankYou, session_id |-> Some("s1")],
     [has_learner_id |-> TRUE, has_message |-> FALSE, learner_id |-> 1,
      message |-> <<>>, session_id |-> Null],
     [has_learner_id |-> FALSE, has_message |-> TRUE, learner_id |-> 0,
      message |-> ThankYou, session_id |-> Null]}

\* chat() of app.py for one body, the outcome of the availability test call
\* and the outcome of the generation call: the reply, with the calls that
\* were made, and the interactions dict after it.  Ids are uuid4 values; the position in the dict stands for
\* them.
DemoChatHandler(table, body, probe, outcome, t) ==
    LET request == [body |-> body, probe |-> probe, outcome |-> outcome]
        failed(status, error, calls) ==
            [interactions |-> table,
             reply |-> [status |-> status, request |-> [request EXCEPT !.probe = calls,
                                                                       !.outcome = NotCalled],
                        error |-> error, interaction_id |-> Null, response |-> <<>>]]
    IN  IF ~body.has_learner_id
            THEN failed("400", "Missing required field: learner_id", NotCalled)
        ELSE IF ~body.has_message
            THEN failed("400", "Missing required field: message", NotCalled)
        ELSE IF ~CheckModelAvailability(probe)
            THEN failed("503", "Model not available", probe)
        ELSE LET response_data == GenerateEducationalResponse(outcome, t)
                 interaction_id == Len(table) + 1
                 interaction ==
                     [id |-> interaction_id,
                      learner_id |-> body.learner_id,
                      session_id |-> IF body.session_id = Null THEN "uuid4"
                                     ELSE body.session_id[1],
                      user_message |-> body.message,
                      assistant_response |-> response_data.content,
                      intent |-> response_data.intent,
                      confidence |-> response_data.confidence,
                      timestamp |-> t]
             IN  [interactions |-> Append(table, interaction),
                  reply |-> [status |-> "200", request |-> request, error |-> "",
                             interaction_id |-> Some(interaction_id),
                             response |-> interaction.assistant_response]]

InitDemo ==
    /\ user_input = <<>>
    /\ classification = NoResult
    /\ response = <<>>
    /\ history = <<>>
    /\ learner_known = FALSE
    /\ validation = NoResult
    /\ overall = NoResult
    /\ memories = <<>>
    /\ now = 0
    /\ last = NoResult
    /\ ops = 0
    /\ profiles = <<>>
    /\ interactions = <<>>
    /\ requests = <<>>
    /\ reply = NoResult
    /\ generated = NoResult
    /\ demo = [interactions |-> <<>>, reply |-> NoResult]

\* One call llama.generate_response(intent, user_input, learner_profile, context).
LlamaGenerateResponse ==
    /\ ops < MaxDemoCalls
    /\ \E intent \in LlamaIntents, context \in LlamaContexts, outcome \in CallOutcomes :
           generated' = [status |-> "returned",
                         call |-> [intent |-> intent, context |-> context,
                                   outcome |-> outcome],
                         result |-> LlamaGenerate(intent, context, outcome, now)]
    /\ ops' = ops + 1
    /\ UNCHANGED <<demo, now, memories, last, classifierVars, validatorVars, pipelineVars>>

\* One POST /api/sage/chat to the demo server.
DemoChat ==
    /\ ops < MaxDemoCalls
    /\ \E body \in DemoBodies, probe \in CallOutcomes, outcome \in CallOutcomes :
           demo' = DemoChatHandler(demo.interactions, body, probe, outcome, now)
    /\ ops' = ops + 1
    /\ UNCHANGED <<generated, now, memories, last, classifierVars, validatorVars,
                   pipelineVars>>

SpecDemo == InitDemo /\ [][LlamaGenerateResponse \/ DemoChat]_vars

\* ------------------------------------------------------------------------
\* The demo server and the Llama integration: the claims
\* ------------------------------------------------------------------------

\* The external call of the last generate_response failed: a status other
\* than 200, a transport error or a timeout.
CallFailed(outcome) ==
    \/ outcome.kind \in {"ConnectionError", "Timeout"}
    \/ outcome.kind = "response" /\ outcome.status_code # 200

\* C16: when the external call fails (non-200 status, transport error,
\* timeout) generate_response returns, not raises: the canned string of the
\* intent, or the generic one for an intent without an entry, as content,
\* with personalized = False; when the call succeeds it returns the
\* generated text with personalized = True.
C16_FailedCallFallsBackUnpersonalized ==
    generated # NoResult =>
        LET call == generated.call
            result == generated.result
        IN  /\ generated.status = "returned"
            /\ CallFailed(call.outcome) =>
                   /\ ~result.personalized
                   /\ result.model_used = "fallback"
                   /\ call.intent \in DOMAIN FallbackResponses =>
                          result.content = <<FallbackResponses[call.intent]>>
                   /\ call.intent \notin DOMAIN FallbackResponses =>
                          result.content = <<GenericFallback>>
            /\ (call.outcome.kind = "response" /\ call.outcome.status_code = 200
                    /\ call.outcome.well_formed) =>
                   /\ result.personalized
                   /\ result.model_used = ModelName
                   /\ result.content = StripText(call.outcome.text)

\* A call for an intent with its own canned string ended in a timeout and
\* got that string.
C16_Witness ==
    /\ generated # NoResult
    /\ generated.call.outcome.kind = "Timeout"
    /\ generated.call.intent = "R Revision"
    /\ generated.result.content = <<FallbackResponses["R Revision"]>>
    /\ ~generated.result.personalized

\* The demo server answered a chat request with both fields while the
\* generator was unavailable: the availability test call or the generation
\* call failed.
AnsweredWhileUnavailable ==
    /\ demo.reply # NoResult
    /\ demo.reply.request.body.has_learner_id
    /\ demo.reply.request.body.has_message
    /\ \/ CallFailed(demo.reply.request.probe)
       \/ CallFailed(demo.reply.request.outcome)

\* C17: a chat request that meets an unavailable generator is recovered
\* locally: it is answered 200 with the fallback response, and its
\* interaction is recorded with that response.
C17_UnavailableGeneratorIsRecoveredLocally ==
    AnsweredWhileUnavailable =>
        /\ demo.reply.status = "200"
        /\ demo.reply.response = <<FallbackResponses["Answer"]>>
        /\ demo.reply.interaction_id # Null
        /\ \E i \in DOMAIN demo.interactions :
               /\ demo.reply.interaction_id = Some(i)
               /\ demo.interactions[i].user_message = demo.reply.request.body.message
               /\ demo.interactions[i].assistant_response = demo.reply.response

\* ------------------------------------------------------------------------
\* The chat pipeline, step by step: further claims
\* ------------------------------------------------------------------------

\* The chat request r got as far as the call of validate_response, and the
\* call is over.
ValidationOver(r) ==
    /\ requests[r].via = "chat"
    /\ requests[r].pc = "done"
    /\ requests[r].interaction_id # Null
    /\ requests[r].trace[Len(requests[r].trace)] \in
           {"response-generated", "validated", "completed"}

\* C21: once the validation of a chat request is over, the validation
\* result is on the request's interaction (written by
\* _store_validation_results, once).
C21_ValidationIsStoredOnInteraction ==
    \A r \in DOMAIN requests :
        ValidationOver(r) =>
            interactions[requests[r].interaction_id[1]].checker_validation # Null

\* The requests whose interaction has been inserted.
Persisted == {r \in DOMAIN requests : requests[r].interaction_id # Null}

\* C22: every request that persists creates a row of its own: there are as
\* many rows as requests that persisted, no two requests share a row, and
\* each row holds its request's learner, session and input; this for every
\* interleaving, requests of one learner and session included.
C22_EachRequestCreatesItsOwnRow ==
    /\ Len(interactions) = Cardinality(Persisted)
    /\ \A r \in Persisted :
           LET id == requests[r].interaction_id[1]
           IN  /\ id \in DOMAIN interactions
               /\ interactions[id].learner_id = requests[r].learner_id
               /\ interactions[id].session_id = requests[r].session_id
               /\ interactions[id].user_input = requests[r].message
               /\ \A q \in Persisted : q # r => requests[q].interaction_id # Some(id)

\* Two chat requests of one learner and session both read the empty
\* conversation-state window, and then both inserted their rows.
C22_Witness ==
    \E r, q \in Persisted :
        /\ r # q
        /\ requests[r].via = "chat" /\ requests[q].via = "chat"
        /\ requests[r].learner_id = requests[q].learner_id
        /\ requests[r].session_id = requests[q].session_id
        /\ requests[r].context.interaction_count = 0
        /\ requests[q].context.interaction_count = 0
        /\ Len(interactions) = 2

\* ------------------------------------------------------------------------
\* Memory store: further claims
\* ------------------------------------------------------------------------

\* The last operation was a retrieve_memory call.
Retrieved == last # NoResult /\ last.op = "retrieve"

\* Row i of the table the last retrieve_memory call found passes the call's
\* filters: the learner, the key part and the category where they are given.
Qualifies(i) ==
    LET row == last.previous[i]
    IN  /\ row.learner_id = last.call.learner_id
        /\ last.call.memory_key = None \/ Contains(row.memory_key, last.call.memory_key)
        /\ last.call.memory_type = None \/ row.memory_type = last.call.memory_type

\* Row a ranks at least as high as row b: a higher importance, or the same
\* importance and an access at least as recent.
RanksAtLeast(a, b) ==
    \/ a.importance_score[1] * b.importance_score[2] > b.importance_score[1] * a.importance_score[2]
    \/ /\ a.importance_score[1] * b.importance_score[2] = b.importance_score[1] * a.importance_score[2]
       /\ a.last_accessed >= b.last_accessed

\* C23: retrieve_memory returns only rows that pass the filters, each once,
\* at most limit of them, ordered by importance descending and then by last
\* access descending (as the rows were when the call found them); a
\* qualifying row is left out only when limit rows are returned, and then
\* every returned row ranks at least as high as it.
C23_RetrieveFiltersOrdersAndLimits ==
    Retrieved =>
        LET ret == last.returned
            row(k) == last.previous[ret[k]]
        IN  /\ Len(ret) <= last.call.limit
            /\ \A k \in DOMAIN ret : ret[k] \in DOMAIN last.previous /\ Qualifies(ret[k])
            /\ \A j, k \in DOMAIN ret : j < k => ret[j] # ret[k] /\ RanksAtLeast(row(j), row(k))
            /\ \A i \in DOMAIN last.previous :
                   (Qualifies(i) /\ ~WasReturned(i)) =>
                       /\ Len(ret) = last.call.limit
                       /\ \A k \in DOMAIN ret : RanksAtLeast(row(k), last.previous[i])

\* A call with limit 1 found three qualifying rows, two of them with the
\* same importance and different last accesses, and returned one of the two.
C23_Witness ==
    /\ Retrieved
    /\ last.call.limit = 1
    /\ Cardinality({i \in DOMAIN last.previous : Qualifies(i)}) >= 3
    /\ \E i, j \in DOMAIN last.previous :
           /\ Qualifies(i) /\ Qualifies(j)
           /\ last.previous[i].importance_score = last.previous[j].importance_score
           /\ last.previous[i].last_accessed # last.previous[j].last_accessed
           /\ WasReturned(i)

\* The requests that returned memory m and have written their access to it.
AccessWritten(m) ==
    {r \in DOMAIN requests :
        /\ requests[r].pc \notin {"classify", "extract", "retrieve", "update"}
        /\ \E k \in DOMAIN requests[r].memories : requests[r].memories[k] = m}

\* C24: a memory's access_count is its count at the start (0) plus the
\* number of retrievals that returned it and have written their access: no
\* increment is lost, whatever the interleaving.
C24_NoAccessIncrementIsLost ==
    \A m \in DOMAIN memories :
        memories[m].access_count = Cardinality(AccessWritten(m))

\* The intents whose handler the claim says calls a helper that does not exist.
ClaimedRaisingIntents ==
    {"Answer", "R Revision", "R Evaluation", "R Generation", "R Information", "Negotiation"}

\* Every intent classify_intent can give.
AllIntents == {IntentPatterns[k].intent : k \in DOMAIN IntentPatterns} \cup {"Other"}

\* The intents whose handler calls a helper the class does not define, and
\* the intents the else branch of generate_response takes.
RaisingIntents == {intent \in AllIntents : HandlerFor(intent).undefined # None}

GeneralIntents == {intent \in AllIntents : HandlerFor(intent).type = "general"}

\* The chat request r has been through the call of generate_response.
GenerationOver(r) ==
    /\ requests[r].via = "chat"
    /\ requests[r].interaction_id # Null
    /\ requests[r].pc \in {"validate", "done"}

\* C25: generate_response returns for R Language Use, ACK and the intents of
\* the general handler, and raises for Answer, R Revision, R Evaluation,
\* R Generation, R Information and Negotiation; a chat request with one of
\* these is answered 500 right after its interaction was persisted and
\* reaches neither response-generated nor validated nor completed.
C25_GenerationCompletesOnlyForSomeIntents ==
    /\ RaisingIntents = ClaimedRaisingIntents
    /\ GeneralIntents = {"Other", "R Confirmation", "Conversation", "R Translation"}
    /\ \A r \in DOMAIN requests :
           GenerationOver(r) =>
               LET req == requests[r]
               IN  IF req.classified.intent \in ClaimedRaisingIntents
                       THEN /\ req.status = "500"
                            /\ req.pc = "done"
                            /\ req.trace[Len(req.trace)] = "interaction-persisted"
                            /\ req.interaction_id[1] \in DOMAIN interactions
                   ELSE /\ req.trace[5] = "response-generated"
                        /\ req.response.status = "returned"

\* An Answer request ended 500 after its interaction was persisted, next to
\* a language request whose response was generated.
C25_Witness ==
    \E r, q \in DOMAIN requests :
        /\ GenerationOver(r) /\ GenerationOver(q)
        /\ requests[r].classified.intent = "Answer"
        /\ requests[r].status = "500"
        /\ requests[q].classified.intent = "R Language Use"
        /\ requests[q].response.status = "returned"

\* The chat request r has a response generate_response returned.
Generated(r) ==
    /\ requests[r].via = "chat"
    /\ requests[r].response.status = "returned"

\* C30: the context process_user_input builds has no 'user_input' key, so
\* the content generate_response gives in the chat pipeline is the same for
\* any two requests of the same classified intent whose learners have the
\* same proficiency level and course type, whatever their messages say.
C30_ResponseDependsOnIntentAndProfileOnly ==
    /\ \A r \in DOMAIN requests :
           requests[r].context.status = "returned" =>
               "user_input" \notin DOMAIN requests[r].context
    /\ \A r, q \in DOMAIN requests :
           (/\ Generated(r) /\ Generated(q)
            /\ requests[r].classified.intent = requests[q].classified.intent
            /\ requests[r].learner_profile[1].proficiency_level =
                   requests[q].learner_profile[1].proficiency_level
            /\ requests[r].learner_profile[1].course_type =
                   requests[q].learner_profile[1].course_type)
               => requests[r].response.content = requests[q].response.content

\* Two language requests of one learner were answered, one for a message
\* without anything the feedback patterns match and one for a message the
\* comma pattern matches.
C30_Witness ==
    \E r, q \in DOMAIN requests :
        /\ Generated(r) /\ Generated(q)
        /\ requests[r].classified.intent = "R Language Use"
        /\ requests[q].classified.intent = "R Language Use"
        /\ requests[r].learner_id = requests[q].learner_id
        /\ AnalyzeLanguageUse(requests[r].message).grammar_issues = <<>>
        /\ AnalyzeLanguageUse(requests[q].message).grammar_issues # <<>>

\* ------------------------------------------- validator: further claims

\* The score of the call is at least 0.7.
ScoreReachesGate == RLe[Rat[7, 10], overall.overall_score]

\* The approval gate decides otherwise than the score alone would.
BiasConjunctDecides ==
    Approved(overall.overall_score, overall.bias_detection) # ScoreReachesGate

\* C26: when a bias category is detected the overall score is at most 0.8,
\* and the bias conjunct of the approval gate changes the decision exactly
\* for the biased responses whose score lies in [0.7, 0.8].
C26_BiasedScoreAtMostFourFifths ==
    Scored =>
        /\ overall.bias_detection.detected_biases # {} =>
               RLe[overall.overall_score, Rat[8, 10]]
        /\ BiasConjunctDecides <=>
               /\ overall.bias_detection.detected_biases # {}
               /\ RLe[Rat[7, 10], overall.overall_score]
               /\ RLe[overall.overall_score, Rat[8, 10]]

\* A biased response scored in [0.7, 0.8]: the score passes the gate and
\* the bias conjunct alone refuses the approval.
C26_Witness ==
    /\ Scored
    /\ overall.bias_detection.detected_biases # {}
    /\ RLe[Rat[7, 10], overall.overall_score]
    /\ RLe[overall.overall_score, Rat[8, 10]]
    /\ ~Approved(overall.overall_score, overall.bias_detection)

\* The recommendations of the call that are about consistency.
ConsistencyRecommendations ==
    SelectSeq(overall.recommendations, LAMBDA x : x.about = "consistency")

\* The recommendations of a scored call for a known learner with at least
\* one earlier response have been generated.
RecommendedWithHistory ==
    /\ Scored
    /\ "recommendations" \in DOMAIN overall
    /\ learner_known
    /\ history # <<>>

\* The score of the tone aspect in the consistency check of the call.
ToneScore ==
    LET results == overall.consistency_check.aspect_results
    IN  results[CHOOSE a \in DOMAIN results : results[a].aspect = "tone"].score

\* C27 as stated: with an earlier response the overall consistency is 0.84
\* when tone scores 1.0 and 0.78 when tone scores 0.5, the check as a whole
\* is consistent, and only tone gets a consistency recommendation.
C27_ConsistencyIsPoint84OrPoint78 ==
    RecommendedWithHistory =>
        /\ ToneScore = Rat[1, 1] => overall.consistency_check.overall_consistency = Rat[84, 100]
        /\ ToneScore = Rat[1, 2] => overall.consistency_check.overall_consistency = Rat[78, 100]
        /\ overall.consistency_check.consistent
        /\ \A k \in DOMAIN ConsistencyRecommendations :
               ConsistencyRecommendations[k].subject = "tone"

\* C27: with at least one earlier response of the learner the overall
\* consistency is 0.84 when tone scores 1.0 and 0.74 when tone scores 0.5,
\* tone scores nothing else, the check as a whole is consistent, and only
\* tone gets a consistency recommendation.
C27_ConsistencyIsPoint84OrPoint74 ==
    RecommendedWithHistory =>
        LET check == overall.consistency_check
        IN  /\ ToneScore \in {Rat[1, 1], Rat[1, 2]}
            /\ ToneScore = Rat[1, 1] => check.overall_consistency = Rat[84, 100]
            /\ ToneScore = Rat[1, 2] => check.overall_consistency = Rat[74, 100]
            /\ check.consistent
            /\ \A k \in DOMAIN ConsistencyRecommendations :
                   ConsistencyRecommendations[k].subject = "tone"

\* An encouraging response after earlier responses that mostly were not:
\* tone scores 0.5 and gets the one consistency recommendation.
C27_Witness ==
    /\ RecommendedWithHistory
    /\ ToneScore = Rat[1, 2]
    /\ overall.consistency_check.overall_consistency = Rat[74, 100]
    /\ Len(ConsistencyRecommendations) = 1

\* C28: a row that was retrieved at least once holds the retention
\* importance / (1 + 0.1 x age at its last access); a row that was stored and
\* never retrieved holds the default 1.0, whatever its importance.
C28_RetentionIsDefaultUntilFirstRetrieval ==
    \A i \in DOMAIN memories :
        IF memories[i].access_count > 0
            THEN RetentionFromCreation(i)
        ELSE /\ memories[i].retention_strength = Rat[1, 1]
             /\ memories[i].last_accessed = memories[i].created_at

\* Two rows never retrieved, one whose default retention is above what the
\* formula gives for its importance and one whose default is below it, next
\* to a row retrieved a day after it was stored.
C28_Witness ==
    \E i, j, k \in DOMAIN memories :
        /\ memories[i].access_count = 0
        /\ RLt[Retention(memories[i].importance_score, 0), memories[i].retention_strength]
        /\ memories[j].access_count = 0
        /\ RLt[memories[j].retention_strength, Retention(memories[j].importance_score, 0)]
        /\ memories[k].access_count > 0
        /\ memories[k].last_accessed > memories[k].created_at

\* ------------------------------------------ whole requests: further claims

\* C29: a feedback submission with a rating in 1..5 for an interaction id
\* that does not exist leaves both tables as they were and is answered 200
\* without an error; one for an interaction that exists sets its rating to
\* the submitted one, whether or not it had a rating before.
C29_MissingInteractionIsSilentSuccess ==
    [][Served("submit_feedback") =>
          LET req == reply'.request
              r == req.rating
              id == req.interaction_id
          IN  (r.kind = "int" /\ r.num \in 1..5) =>
                  /\ reply'.status = "200"
                  /\ reply'.error = None
                  /\ IF id \notin DOMAIN interactions
                         THEN /\ interactions' = interactions
                              /\ memories' = memories
                              /\ profiles' = profiles
                     ELSE /\ Len(interactions') = Len(interactions)
                          /\ interactions'[id].user_rating = Some(r.num)]_vars

\* A rating for an interaction id that does not exist was answered 200,
\* after an interaction first rated 1 with a comment was rated again, 5.
C29_Witness ==
    /\ reply # NoResult
    /\ reply.request.op = "submit_feedback"
    /\ reply.request.rating.kind = "int"
    /\ reply.request.rating.num \in 1..5
    /\ reply.request.interaction_id \notin DOMAIN interactions
    /\ reply.status = "200"
    /\ \E id \in DOMAIN interactions : \E m \in DOMAIN memories :
           /\ interactions[id].user_rating = Some(5)
           /\ memories[m].memory_key = FeedbackKey(id)
           /\ memories[m].importance_score = <<1, 5>>

====
